---- MODULE Spec2Model ----
(***************************************************************************)
(* A model of silkprint's theme engine (src/src/theme) and Typst emitter   *)
(* (src/src/render/markdown.rs, with the inline part of render/html.rs).   *)
(*                                                                         *)
(* Every Rust String is a sequence of one-character strings, so that       *)
(* starts_with, is_empty, trim, escaping and joining act on characters.    *)
(* An f64 token (line_height) is an integer number of tenths; only its     *)
(* comparison with 0.0 is used by the merge.  Luminance and contrast       *)
(* ratios are fixed-point integers.                                        *)
(***************************************************************************)
EXTENDS Integers, Sequences, FiniteSets, TLC

VARIABLES
    pc,               \* position in the operation being run
    source,           \* the ThemeSource handed to load_theme
    options,          \* RenderOptions: theme and theme_explicit
    front_matter,     \* Option<FrontMatter> that extract returned
    returned,         \* Some(warnings) of the last render_to_typst that returned Ok
    builtin,          \* the built-in catalog: theme name -> embedded theme
    tokens,           \* the ThemeTokens being loaded / merged / resolved
    chain,            \* resolve_inheritance: Vec<ThemeTokens>, child first
    seen_names,       \* resolve_inheritance: HashSet<String>
    result,           \* Result of the operation: Ok or a SilkprintError
    warnings,         \* WarningCollector.warnings
    pass,             \* resolve_color_table: passes run so far
    root,             \* the parsed document tree handed to emit_typst
    footnotes,        \* EmitContext.footnotes (pass-1 map)
    out,              \* EmitContext.out of the main emission
    mermaid_sources   \* EmitContext.mermaid_sources of the main emission

vars == <<pc, source, options, front_matter, returned, builtin, tokens, chain, seen_names, result, warnings, pass,
          root, footnotes, out, mermaid_sources>>

themeVars == <<source, builtin, tokens, chain, seen_names, result, pass>>
emitVars == <<root, footnotes, out, mermaid_sources>>
renderVars == <<options, front_matter, returned>>

(***************************************************************************)
(* Sequence helpers                                                        *)
(***************************************************************************)
Range(s) == {s[i] : i \in DOMAIN s}

Max(a, b) == IF a >= b THEN a ELSE b

Min(a, b) == IF a <= b THEN a ELSE b

RECURSIVE Concat(_)
Concat(ss) == IF ss = <<>> THEN <<>> ELSE Head(ss) \o Concat(Tail(ss))

Reverse(s) == [i \in 1..Len(s) |-> s[Len(s) + 1 - i]]

\* [String]::join(sep)
RECURSIVE Join(_, _)
Join(ss, sep) ==
    IF ss = <<>> THEN <<>>
    ELSE IF Len(ss) = 1 THEN Head(ss)
    ELSE Head(ss) \o sep \o Join(Tail(ss), sep)

\* str::starts_with(c)
StartsWith(s, c) == Len(s) > 0 /\ s[1] = c

(***************************************************************************)
(* toml::Value                                                             *)
(***************************************************************************)
VString(s) == [t |-> "String", v |-> s]
VInteger(n) == [t |-> "Integer", v |-> n]
VFloat(f) == [t |-> "Float", v |-> f]
VBoolean(b) == [t |-> "Boolean", v |-> b]
VArray(a) == [t |-> "Array", v |-> a]
VTable(f) == [t |-> "Table", v |-> f]
\* What the serializer yields for Option::None: the field is skipped.
Absent == [t |-> "Absent", v |-> 0]

\* Option<T>
None == [some |-> FALSE, v |-> FALSE]
NoneString == [some |-> FALSE, v |-> <<>>]
Some(x) == [some |-> TRUE, v |-> x]

(***************************************************************************)
(* The token schema (tokens.rs).  The model keeps, of each section, the    *)
(* fields the engine reads (meta, the palette, every color the contrast    *)
(* audit checks, the whole syntax palette) and one field of every leaf     *)
(* type (String, u16, f64, bool, Vec<String>, Option<bool>,                *)
(* Option<String>).                                                        *)
(***************************************************************************)
Leaf(k) == [k |-> k]
Struct(f) == [k |-> "Struct", f |-> f]

SyntaxStyleTokens ==
    Struct([color |-> Leaf("String"), bold |-> Leaf("OptBoolean"),
            italic |-> Leaf("OptBoolean")])

SyntaxNames ==
    {"text", "keyword", "string", "number", "function", "type", "comment",
     "constant", "boolean", "operator", "property", "tag", "attribute",
     "variable", "builtin", "punctuation", "escape"}

SyntaxTokens ==
    Struct([n \in SyntaxNames \cup {"background"} |->
               IF n = "background" THEN Leaf("String") ELSE SyntaxStyleTokens])

HeadingLevelTokens ==
    Struct([weight |-> Leaf("Integer"), border |-> Leaf("OptBoolean"),
            letter_spacing |-> Leaf("OptString")])

ThemeTokens ==
    Struct([
        meta |-> Struct([name |-> Leaf("String"), variant |-> Leaf("String"),
                         extends |-> Leaf("String")]),
        colors |-> Leaf("Map"),
        fonts |-> Struct([heading_weight |-> Leaf("Integer"),
                          heading_italic |-> Leaf("Boolean"),
                          heading_fallback |-> Leaf("Array")]),
        page |-> Struct([background |-> Leaf("String")]),
        text |-> Struct([color |-> Leaf("String"), line_height |-> Leaf("Float")]),
        headings |-> Struct([color |-> Leaf("String"), h1 |-> HeadingLevelTokens]),
        code_block |-> Struct([background |-> Leaf("String")]),
        blockquote |-> Struct([text_color |-> Leaf("String")]),
        table |-> Struct([header_background |-> Leaf("String")]),
        links |-> Struct([color |-> Leaf("String"), underline |-> Leaf("Boolean")]),
        images |-> Struct([caption_color |-> Leaf("String")]),
        footnotes |-> Struct([number_color |-> Leaf("String")]),
        page_numbers |-> Struct([color |-> Leaf("String")]),
        syntax |-> SyntaxTokens])

\* #[derive(Default)]
RECURSIVE DefaultOf(_)
DefaultOf(s) ==
    CASE s.k = "Struct" -> [f \in DOMAIN s.f |-> DefaultOf(s.f[f])]
      [] s.k \in {"String", "Array", "Map"} -> <<>>
      [] s.k \in {"Integer", "Float"} -> 0
      [] s.k = "Boolean" -> FALSE
      [] s.k = "OptBoolean" -> None
      [] OTHER -> NoneString

DefaultTokens == DefaultOf(ThemeTokens)

\* toml::Value::try_from(&tokens): every field is written, None is skipped.
RECURSIVE Serialize(_, _)
Serialize(x, s) ==
    CASE s.k = "Struct" ->
            LET all == [f \in DOMAIN s.f |-> Serialize(x[f], s.f[f])]
            IN VTable([f \in {g \in DOMAIN s.f : all[g].t # "Absent"} |-> all[f]])
      [] s.k = "String" -> VString(x)
      [] s.k = "Integer" -> VInteger(x)
      [] s.k = "Float" -> VFloat(x)
      [] s.k = "Boolean" -> VBoolean(x)
      [] s.k = "Array" -> VArray(x)
      [] s.k = "Map" -> VTable([n \in DOMAIN x |-> VString(x[n])])
      [] s.k = "OptBoolean" -> IF x.some THEN VBoolean(x.v) ELSE Absent
      [] OTHER -> IF x.some THEN VString(x.v) ELSE Absent

\* Value::try_into::<ThemeTokens>() under #[serde(default)]: a missing key
\* takes the field's Default.
RECURSIVE Deserialize(_, _)
Deserialize(val, s) ==
    CASE s.k = "Struct" ->
            [f \in DOMAIN s.f |->
                IF f \in DOMAIN val.v THEN Deserialize(val.v[f], s.f[f])
                ELSE DefaultOf(s.f[f])]
      [] s.k = "Map" -> [n \in DOMAIN val.v |-> val.v[n].v]
      [] s.k \in {"OptBoolean", "OptString"} -> Some(val.v)
      [] OTHER -> val.v

(***************************************************************************)
(* merge_tokens / deep_merge_toml / is_default_value                        *)
(***************************************************************************)
\* A merge that knows only the empty string as "unset".
is_default_value_strings_only(val) == val.t = "String" /\ Len(val.v) = 0

is_default_value(val) ==
    CASE val.t = "String" -> Len(val.v) = 0
      [] val.t = "Integer" -> val.v = 0
      [] val.t = "Float" -> val.v = 0
      [] val.t = "Boolean" -> ~val.v
      [] val.t = "Array" -> Len(val.v) = 0
      [] val.t = "Table" -> DOMAIN val.v = {}
      [] OTHER -> FALSE

RECURSIVE deep_merge_toml(_, _)
deep_merge_toml(base, overlay) ==
    IF base.t = "Table" /\ overlay.t = "Table"
    THEN LET bt == base.v
             ot == overlay.v
             inserted == {k \in DOMAIN ot \ DOMAIN bt : ~is_default_value(ot[k])}
         IN VTable([k \in DOMAIN bt \cup inserted |->
                IF k \notin DOMAIN ot THEN bt[k]
                ELSE IF k \notin DOMAIN bt THEN ot[k]
                ELSE IF bt[k].t = "Table" /\ ot[k].t = "Table"
                     THEN deep_merge_toml(bt[k], ot[k])
                ELSE IF ~is_default_value(ot[k]) THEN ot[k]
                ELSE bt[k]])
    ELSE IF ~is_default_value(overlay) THEN overlay ELSE base

merge_tokens(base, child) ==
    Deserialize(deep_merge_toml(Serialize(base, ThemeTokens),
                                Serialize(child, ThemeTokens)), ThemeTokens)

\* resolve_inheritance, after the loop: reverse the chain and fold it.
RECURSIVE FoldFrom(_, _, _)
FoldFrom(rev, i, merged) ==
    IF i > Len(rev) THEN merged
    ELSE FoldFrom(rev, i + 1, merge_tokens(merged, rev[i]))

\* A fold that forgets chain.reverse(): the child first, its ancestors over it.
FoldChain_child_first(ch) == FoldFrom(ch, 2, ch[1])

FoldChain(ch) == LET rev == Reverse(ch) IN FoldFrom(rev, 2, rev[1])

(***************************************************************************)
(* SilkprintError / Result                                                 *)
(***************************************************************************)
Pending ==
    [kind |-> "Pending", chain |-> <<>>, name |-> <<>>, suggestions |-> <<>>]
Ok == [kind |-> "Ok", chain |-> <<>>, name |-> <<>>, suggestions |-> <<>>]
ThemeCycle(c) ==
    [kind |-> "ThemeCycle", chain |-> c, name |-> <<>>, suggestions |-> <<>>]
ThemeInheritanceDepth(c) ==
    [kind |-> "ThemeInheritanceDepth", chain |-> c, name |-> <<>>,
     suggestions |-> <<>>]
ThemeNotFound(n, suggestions) ==
    [kind |-> "ThemeNotFound", chain |-> <<>>, name |-> n,
     suggestions |-> suggestions]
ThemeInvalid ==
    [kind |-> "ThemeInvalid", chain |-> <<>>, name |-> <<>>,
     suggestions |-> <<>>]

\* ThemeSource: the model loads built-in themes by name and themes given
\* inline; NoSource stands for an operation that loads no theme.
BuiltIn(name) == [kind |-> "BuiltIn", name |-> name]
Inline == [kind |-> "Inline", name |-> <<>>]
NoSource == [kind |-> "None", name |-> <<>>]
Custom(path) == [kind |-> "Custom", name |-> path]

\* RenderOptions (the fields the theme choice reads) and its Default.
RenderOptions(theme, theme_explicit) ==
    [theme |-> theme, theme_explicit |-> theme_explicit]

DefaultRenderOptions ==
    RenderOptions(BuiltIn(<<"s", "i", "l", "k", "c", "i", "r", "c", "u", "i", "t",
                            "-", "d", "a", "w", "n">>), FALSE)

\* Option<FrontMatter>: the theme field and the keys of extras.
NoFrontMatter == [some |-> FALSE, theme |-> NoneString, extras |-> {}]
FrontMatter(theme, extras) == [some |-> TRUE, theme |-> theme, extras |-> extras]

\* No render is going on.
RenderIdle ==
    /\ options = DefaultRenderOptions
    /\ front_matter = NoFrontMatter
    /\ returned = NoneString

(***************************************************************************)
(* The built-in catalog's names and the suggestions of ThemeNotFound       *)
(***************************************************************************)
\* builtin::list_themes(), the names in the order of the list
list_themes ==
    << <<"s", "i", "l", "k", "-", "l", "i", "g", "h", "t">>, <<"s", "i", "l", "k", "-", "d", "a", "r", "k">>, <<"m", "a", "n", "u", "s", "c", "r", "i", "p", "t">>, <<"m", "o", "n", "o", "c", "h", "r", "o", "m", "e">>,
       <<"s", "i", "l", "k", "c", "i", "r", "c", "u", "i", "t", "-", "n", "e", "o", "n">>, <<"s", "i", "l", "k", "c", "i", "r", "c", "u", "i", "t", "-", "v", "i", "b", "r", "a", "n", "t">>, <<"s", "i", "l", "k", "c", "i", "r", "c", "u", "i", "t", "-", "s", "o", "f", "t">>,
       <<"s", "i", "l", "k", "c", "i", "r", "c", "u", "i", "t", "-", "g", "l", "o", "w">>, <<"s", "i", "l", "k", "c", "i", "r", "c", "u", "i", "t", "-", "d", "a", "w", "n">>, <<"g", "r", "e", "y", "s", "c", "a", "l", "e", "-", "w", "a", "r", "m">>,
       <<"g", "r", "e", "y", "s", "c", "a", "l", "e", "-", "c", "o", "o", "l">>, <<"h", "i", "g", "h", "-", "c", "o", "n", "t", "r", "a", "s", "t">>, <<"a", "c", "a", "d", "e", "m", "i", "c">>, <<"t", "y", "p", "e", "w", "r", "i", "t", "e", "r">>,
       <<"n", "e", "w", "s", "p", "a", "p", "e", "r">>, <<"p", "a", "r", "c", "h", "m", "e", "n", "t">>, <<"c", "y", "b", "e", "r", "p", "u", "n", "k">>, <<"t", "e", "r", "m", "i", "n", "a", "l">>, <<"h", "o", "l", "o", "g", "r", "a", "m">>,
       <<"s", "y", "n", "t", "h", "w", "a", "v", "e">>, <<"m", "a", "t", "r", "i", "x">>, <<"f", "o", "r", "e", "s", "t">>, <<"o", "c", "e", "a", "n">>, <<"s", "u", "n", "s", "e", "t">>, <<"a", "r", "c", "t", "i", "c">>,
       <<"s", "a", "k", "u", "r", "a">>, <<"n", "o", "i", "r">>, <<"c", "a", "n", "d", "y">>, <<"b", "l", "u", "e", "p", "r", "i", "n", "t">>, <<"w", "i", "t", "c", "h">>, <<"n", "o", "r", "d">>,
       <<"d", "r", "a", "c", "u", "l", "a">>, <<"s", "o", "l", "a", "r", "i", "z", "e", "d", "-", "l", "i", "g", "h", "t">>, <<"s", "o", "l", "a", "r", "i", "z", "e", "d", "-", "d", "a", "r", "k">>,
       <<"c", "a", "t", "p", "p", "u", "c", "c", "i", "n", "-", "m", "o", "c", "h", "a">>, <<"c", "a", "t", "p", "p", "u", "c", "c", "i", "n", "-", "l", "a", "t", "t", "e">>, <<"g", "r", "u", "v", "b", "o", "x", "-", "d", "a", "r", "k">>,
       <<"g", "r", "u", "v", "b", "o", "x", "-", "l", "i", "g", "h", "t">>, <<"t", "o", "k", "y", "o", "-", "n", "i", "g", "h", "t">>, <<"r", "o", "s", "e", "-", "p", "i", "n", "e">> >>

UpperCase == <<"A", "B", "C", "D", "E", "F", "G", "H", "I", "J", "K", "L", "M", "N", "O", "P", "Q", "R", "S", "T", "U", "V", "W", "X", "Y", "Z">>
LowerCase == <<"a", "b", "c", "d", "e", "f", "g", "h", "i", "j", "k", "l", "m", "n", "o", "p", "q", "r", "s", "t", "u", "v", "w", "x", "y", "z">>

\* str::to_lowercase, on the characters of the model
to_lowercase(s) ==
    [i \in 1..Len(s) |->
        IF \E k \in 1..26 : UpperCase[k] = s[i]
        THEN LowerCase[CHOOSE k \in 1..26 : UpperCase[k] = s[i]]
        ELSE s[i]]

\* str::contains(&str)
contains(hay, needle) ==
    \E i \in 0..(Len(hay) - Len(needle)) :
        SubSeq(hay, i + 1, i + Len(needle)) = needle

\* A distance test that accepts one edit fewer than the code's.
SUGGESTION_DISTANCE_minus_one == 3 - 1

\* levenshtein_distance(..) <= 3
SUGGESTION_DISTANCE == 3

\* One row of dp: dp[i][0] = i, then the inner loop over j.  (The tests on
\* Len only make TLC compute a row before it goes on to the next cell.)
RECURSIVE LevRow(_, _, _, _, _)
LevRow(prev, ai, b, j, row) ==
    IF j > Len(b) THEN row
    ELSE LET cost == IF ai # b[j] THEN 1 ELSE 0
             cell == Min(Min(prev[j + 1] + 1, row[j] + 1), prev[j] + cost)
             next == Append(row, cell)
         IN IF Len(next) = j + 1 /\ cell >= 0
            THEN LevRow(prev, ai, b, j + 1, next)
            ELSE next

\* The outer loop over i; prev is dp[i - 1], as a sequence indexed from 1.
RECURSIVE LevRows(_, _, _, _)
LevRows(a, b, i, prev) ==
    IF i > Len(a) THEN prev
    ELSE LET row == LevRow(prev, a[i], b, 1, <<i>>)
         IN IF Len(row) = Len(prev)
            THEN LevRows(a, b, i + 1, row)
            ELSE row

levenshtein_distance(a, b) ==
    LevRows(a, b, 1, [j \in 1..(Len(b) + 1) |-> j - 1])[Len(b) + 1]

\* The filter of find_suggestions.
IsSuggestion(name_lower, t) ==
    LET t_lower == to_lowercase(t)
    IN \/ contains(t_lower, name_lower)
       \/ contains(name_lower, t_lower)
       \/ levenshtein_distance(name_lower, t_lower) <= SUGGESTION_DISTANCE

RECURSIVE Filter(_, _, _)
Filter(themes, name_lower, i) ==
    IF i > Len(themes) THEN <<>>
    ELSE (IF IsSuggestion(name_lower, themes[i]) THEN <<themes[i]>> ELSE <<>>)
         \o Filter(themes, name_lower, i + 1)

CommaSpace == <<",", " ">>

find_suggestions(name, themes) ==
    LET name_lower == to_lowercase(name)
        found == Filter(themes, name_lower, 1)
        matches == IF found = <<>>
                   THEN SubSeq(themes, 1, Min(5, Len(themes)))
                   ELSE found
    IN Join(matches, CommaSpace)

(***************************************************************************)
(* resolve_inheritance                                                     *)
(***************************************************************************)
Arrow == <<" ", "-", ">", " ">>

\* chain.iter().map(|t| t.meta.name.clone()).collect()
ChainNames(ch) == [i \in 1..Len(ch) |-> ch[i].meta.name]

\* The entry of resolve_inheritance, up to the loop.
ResolveStart ==
    /\ pc = "resolve_inheritance"
    /\ IF Len(tokens.meta.extends) = 0
       THEN /\ result' = Ok
            /\ pc' = "resolved"
            /\ UNCHANGED <<chain, seen_names>>
       ELSE /\ chain' = <<tokens>>
            /\ seen_names' = IF Len(tokens.meta.name) # 0
                             THEN {tokens.meta.name} ELSE {}
            /\ pc' = "chain_loop"
            /\ UNCHANGED result
    /\ UNCHANGED <<source, builtin, tokens, pass, warnings>>
    /\ UNCHANGED emitVars
    /\ UNCHANGED renderVars

\* A chain walk that never looks at the names it has seen.
InSeenNames_never(seen, parent_name) == FALSE

\* seen_names.contains(&parent_name)
InSeenNames(seen, parent_name) == parent_name \in seen

MAX_INHERITANCE_DEPTH_plus_one == 5 + 1

\* A walk with no cap the catalog can reach.
MAX_INHERITANCE_DEPTH_uncapped == 5 + 100

MAX_INHERITANCE_DEPTH == 5

\* One iteration of the loop that builds the chain.
ChainStep ==
    /\ pc = "chain_loop"
    /\ LET current == chain[Len(chain)]
           parent_name == current.meta.extends
       IN IF Len(parent_name) = 0
          THEN /\ pc' = "fold"
               /\ UNCHANGED <<chain, seen_names, result>>
          ELSE IF InSeenNames(seen_names, parent_name)
          THEN /\ result' = ThemeCycle(Join(ChainNames(chain), Arrow)
                                        \o Arrow \o parent_name)
               /\ pc' = "failed"
               /\ UNCHANGED <<chain, seen_names>>
          ELSE IF Len(chain) >= MAX_INHERITANCE_DEPTH
          THEN /\ result' = ThemeInheritanceDepth(Join(ChainNames(chain), Arrow))
               /\ pc' = "failed"
               /\ UNCHANGED <<chain, seen_names>>
          ELSE IF parent_name \notin DOMAIN builtin
          THEN /\ result' = ThemeNotFound(parent_name,
                                         find_suggestions(parent_name,
                                                          list_themes))
               /\ pc' = "failed"
               /\ UNCHANGED <<chain, seen_names>>
          ELSE IF ~builtin[parent_name].valid
          THEN /\ result' = ThemeInvalid
               /\ pc' = "failed"
               /\ UNCHANGED <<chain, seen_names>>
          ELSE /\ seen_names' = seen_names \cup {parent_name}
               /\ chain' = Append(chain, builtin[parent_name].tokens)
               /\ UNCHANGED <<pc, result>>
    /\ UNCHANGED <<source, builtin, tokens, pass, warnings>>
    /\ UNCHANGED emitVars
    /\ UNCHANGED renderVars

\* The fold after the loop.  The Vec is consumed by the fold; the model
\* keeps its last value.
Fold ==
    /\ pc = "fold"
    /\ tokens' = FoldChain(chain)
    /\ result' = Ok
    /\ pc' = "resolved"
    /\ UNCHANGED <<source, builtin, chain, seen_names, pass, warnings>>
    /\ UNCHANGED emitVars
    /\ UNCHANGED renderVars

(***************************************************************************)
(* The document tree: comrak's AST as extract_node hands it to the emitter *)
(* (render/markdown.rs).  Every node carries the same fields; a kind uses  *)
(* the ones ExtractedNode gives it.  Strings are sequences of characters.  *)
(***************************************************************************)
Node(kind, children) ==
    [kind |-> kind, children |-> children, literal |-> <<>>, info |-> <<>>,
     name |-> <<>>, is_ordered |-> FALSE, tight |-> FALSE, start |-> 1,
     is_header |-> FALSE, alignments |-> <<>>, num_columns |-> 0,
     level |-> 0, num_backticks |-> 0]

Document(children) == Node("Document", children)
Paragraph(children) == Node("Paragraph", children)
Heading(level, children) == [Node("Heading", children) EXCEPT !.level = level]
BlockQuote(children) == Node("BlockQuote", children)
Text(text) == [Node("Text", <<>>) EXCEPT !.literal = text]
SoftBreak == Node("SoftBreak", <<>>)
LineBreak == Node("LineBreak", <<>>)
Strong(children) == Node("Strong", children)
Emph(children) == Node("Emph", children)
Strikethrough(children) == Node("Strikethrough", children)
Code(literal, num_backticks) ==
    [Node("Code", <<>>) EXCEPT !.literal = literal, !.num_backticks = num_backticks]
HtmlInline(html_str) == [Node("HtmlInline", <<>>) EXCEPT !.literal = html_str]
List(is_ordered, tight, start, children) ==
    [Node("List", children) EXCEPT
        !.is_ordered = is_ordered, !.tight = tight, !.start = start]
Item(children) == Node("Item", children)
CodeBlock(info, literal) ==
    [Node("CodeBlock", <<>>) EXCEPT !.info = info, !.literal = literal]
Table(alignments, children) ==
    [Node("Table", children) EXCEPT
        !.alignments = alignments, !.num_columns = Len(alignments)]
TableRow(is_header, children) ==
    [Node("TableRow", children) EXCEPT !.is_header = is_header]
TableCell(children) == Node("TableCell", children)
FootnoteDefinition(name, children) ==
    [Node("FootnoteDefinition", children) EXCEPT !.name = name]
FootnoteReference(name) == [Node("FootnoteReference", <<>>) EXCEPT !.name = name]

\* AstNode::descendants(): the node itself, then its subtree in document order.
RECURSIVE descendants(_)
descendants(node) ==
    <<node>> \o Concat([i \in 1..Len(node.children) |-> descendants(node.children[i])])

(***************************************************************************)
(* Colors and names used as inputs                                         *)
(***************************************************************************)
Hex(c) == <<"#", c, c, c, c, c, c>>
Ink == <<"i", "n", "k">>
Inter == <<"I", "n", "t", "e", "r">>
Georgia == <<"G", "e", "o", "r", "g", "i", "a">>

EmptyDoc == Document(<<>>)

EmitIdle ==
    /\ root = EmptyDoc
    /\ footnotes = <<>>
    /\ out = <<>>
    /\ mermaid_sources = <<>>

(***************************************************************************)
(* merge_tokens on a base/child pair                                       *)
(***************************************************************************)
\* The child trees: every modelled leaf type either unset or set.
MergeChildren ==
    {[DefaultTokens EXCEPT
        !.text.color = c, !.text.line_height = lh,
        !.fonts.heading_weight = w, !.fonts.heading_fallback = fb,
        !.links.underline = u, !.headings.h1.border = b,
        !.headings.h1.letter_spacing = ls, !.colors = pal] :
      c \in {<<>>, Hex("1")}, lh \in {0, 15}, w \in {0, 700},
      fb \in {<<>>, <<Inter>>}, u \in BOOLEAN,
      b \in {None, Some(FALSE), Some(TRUE)},
      ls \in {NoneString, Some(<<>>), Some(<<"2">>)},
      pal \in {<<>>, [n \in {Ink} |-> <<>>], [n \in {Ink} |-> Hex("1")]}}

MergeBases ==
    {DefaultTokens,
     [DefaultTokens EXCEPT
        !.text.color = Hex("2"), !.text.line_height = 12,
        !.fonts.heading_weight = 400, !.fonts.heading_fallback = <<Georgia>>,
        !.links.underline = TRUE, !.headings.h1.border = Some(TRUE),
        !.headings.h1.letter_spacing = Some(<<"1">>),
        !.colors = [n \in {Ink} |-> Hex("2")]],
     [DefaultTokens EXCEPT
        !.text.color = Ink, !.headings.h1.border = Some(FALSE),
        !.colors = [n \in {Ink, <<"b", "g">>} |-> IF n = Ink THEN <<>> ELSE Hex("f")]]}

InitMerge ==
    /\ pc = "fold"
    /\ \E base \in MergeBases, child \in MergeChildren : chain = <<child, base>>
    /\ tokens = DefaultTokens
    /\ builtin = <<>>
    /\ seen_names = {}
    /\ source = NoSource
    /\ result = Pending
    /\ warnings = <<>>
    /\ pass = 0
    /\ EmitIdle
    /\ RenderIdle

SpecMerge == InitMerge /\ [][Fold]_vars

(***************************************************************************)
(* C1  merge_tokens(base, child): a leaf the child leaves at the unset      *)
(* sentinel (empty string, zero, false, empty collection) or does not      *)
(* mention keeps the base's value; any other leaf takes the child's value. *)
(***************************************************************************)
RECURSIVE LeafPaths(_)
LeafPaths(s) ==
    IF s.k = "Struct"
    THEN UNION {{<<f>> \o p : p \in LeafPaths(s.f[f])} : f \in DOMAIN s.f}
    ELSE {<<>>}

RECURSIVE At(_, _)
At(x, path) == IF path = <<>> THEN x ELSE At(x[Head(path)], Tail(path))

KindAt(path) == At(ThemeTokens, Concat([i \in 1..Len(path) |-> <<"f", path[i]>>])).k

IsUnset(x, kind) ==
    CASE kind \in {"String", "Array"} -> x = <<>>
      [] kind \in {"Integer", "Float"} -> x = 0
      [] kind = "Boolean" -> x = FALSE
      [] kind = "OptBoolean" -> ~x.some \/ x.v = FALSE
      [] OTHER -> ~x.some \/ x.v = <<>>

MergeDirectional(base, child, merged) ==
    /\ \A p \in LeafPaths(ThemeTokens) \ {<<"colors">>} :
          At(merged, p) = IF IsUnset(At(child, p), KindAt(p))
                          THEN At(base, p) ELSE At(child, p)
    /\ DOMAIN merged.colors \subseteq DOMAIN base.colors \cup DOMAIN child.colors
    /\ \A n \in DOMAIN base.colors \cup DOMAIN child.colors :
          IF n \in DOMAIN child.colors /\ child.colors[n] # <<>>
          THEN n \in DOMAIN merged.colors /\ merged.colors[n] = child.colors[n]
          ELSE IF n \in DOMAIN base.colors
          THEN n \in DOMAIN merged.colors /\ merged.colors[n] = base.colors[n]
          ELSE n \notin DOMAIN merged.colors

C1_MergeDirectional ==
    (pc = "resolved" /\ Len(chain) = 2)
        => MergeDirectional(chain[2], chain[1], tokens)

C1_Witness ==
    /\ pc = "resolved" /\ Len(chain) = 2
    /\ chain[1].text.color = <<>> /\ chain[2].text.color = Hex("2")
    /\ tokens.text.color = Hex("2")
    /\ chain[1].fonts.heading_weight = 700 /\ chain[2].fonts.heading_weight = 400
    /\ tokens.fonts.heading_weight = 700
    /\ chain[1].links.underline = FALSE /\ tokens.links.underline = TRUE

(***************************************************************************)
(* resolve_inheritance over a catalog                                      *)
(***************************************************************************)
MaxThemes == 6

ThemeLetters == <<"A", "B", "C", "D", "E", "F", "G", "H">>
ThemeDigits == <<"1", "2", "3", "4", "5", "6", "7", "8">>
ThemeName(k) == <<ThemeLetters[k]>>
RootName == <<"R">>
MissingName == <<"z">>

\* The catalog's themes 1..len extend one another in a row; theme len
\* ends the row (0), names a theme that does not exist (-1), names the
\* requested inline theme (-2), or names theme j of the row (j).
ExtendsOf(k, len, term) ==
    IF k < len THEN ThemeName(k + 1)
    ELSE IF k > len \/ term = 0 THEN <<>>
    ELSE IF term = -1 THEN MissingName
    ELSE IF term = -2 THEN RootName
    ELSE ThemeName(term)

ThemeAt(k, len, term) ==
    [DefaultTokens EXCEPT
        !.meta.name = ThemeName(k),
        !.meta.extends = ExtendsOf(k, len, term),
        !.headings.color = Hex(ThemeDigits[k]),
        !.text.color = IF k % 2 = 1 THEN Hex(ThemeDigits[k]) ELSE <<>>]

Catalog(len, term, bad) ==
    [n \in {ThemeName(k) : k \in 1..MaxThemes} |->
        LET k == CHOOSE j \in 1..MaxThemes : ThemeName(j) = n
        IN [valid |-> k # bad, tokens |-> ThemeAt(k, len, term)]]

InlineRoot(name) ==
    [DefaultTokens EXCEPT !.meta.name = name, !.meta.extends = ThemeName(1),
                          !.links.color = Hex("9")]

InitInherit ==
    /\ pc = "resolve_inheritance"
    /\ \E len \in 1..MaxThemes, term \in -2..MaxThemes, bad \in 0..MaxThemes,
          rootKind \in {"builtin", "inline", "unnamed"} :
          /\ term <= len
          /\ bad <= len
          /\ term = -2 => rootKind = "inline"
          /\ rootKind = "builtin" => bad # 1
          /\ builtin = Catalog(len, term, bad)
          /\ tokens = CASE rootKind = "builtin" -> ThemeAt(1, len, term)
                        [] rootKind = "inline" -> InlineRoot(RootName)
                        [] OTHER -> InlineRoot(<<>>)
          /\ source = IF rootKind = "builtin" THEN BuiltIn(ThemeName(1))
                      ELSE Inline
    /\ chain = <<>>
    /\ seen_names = {}
    /\ result = Pending
    /\ warnings = <<>>
    /\ pass = 0
    /\ EmitIdle
    /\ RenderIdle

NextInherit == ResolveStart \/ ChainStep \/ Fold

SpecInherit == InitInherit /\ [][NextInherit]_vars

\* The call runs on: a step that can be taken is taken.
SpecInheritLive == SpecInherit /\ WF_vars(NextInherit)

\* The theme resolve_inheritance was called with.
Requested == IF chain # <<>> THEN chain[1] ELSE tokens

Loadable(n) == n \in DOMAIN builtin /\ builtin[n].valid

\* The names met by following `extends` from a theme: its own name, then
\* the names it and its ancestors extend, up to the first name that cannot
\* be loaded.  `fuel` bounds the walk of a cyclic catalog.
RECURSIVE NamesFrom(_, _)
NamesFrom(t, fuel) ==
    IF Len(t.meta.extends) = 0 \/ fuel = 0 THEN <<t.meta.name>>
    ELSE IF ~Loadable(t.meta.extends) THEN <<t.meta.name, t.meta.extends>>
    ELSE <<t.meta.name>> \o NamesFrom(builtin[t.meta.extends].tokens, fuel - 1)

ExtendsNames == NamesFrom(Requested, MaxThemes + 2)

Repeats(w, j) == \E i \in 1..(j - 1) : w[i] = w[j] /\ Len(w[j]) > 0

HasRepeat == \E j \in 1..Len(ExtendsNames) : Repeats(ExtendsNames, j)

FirstRepeat ==
    CHOOSE j \in 1..Len(ExtendsNames) :
        /\ Repeats(ExtendsNames, j)
        /\ \A i \in 1..(j - 1) : ~Repeats(ExtendsNames, i)

Finished == pc \in {"resolved", "failed"}

(***************************************************************************)
(* C2  as stated: every `extends` chain in which a name repeats fails      *)
(* with ThemeCycle, whose chain string is the names in order followed by   *)
(* the repeated name.                                                      *)
(***************************************************************************)
C2_AnyLoopIsCycle ==
    (Finished /\ HasRepeat)
        => result = ThemeCycle(Join(SubSeq(ExtendsNames, 1, FirstRepeat), Arrow))

(***************************************************************************)
(* C2  amended: a chain in which a name repeats never yields a merged      *)
(* theme; it fails with ThemeCycle (names in order, then the repeated      *)
(* name) when the repeated name is met while the chain holds at most       *)
(* MAX_INHERITANCE_DEPTH themes, and with ThemeInheritanceDepth (the       *)
(* first MAX_INHERITANCE_DEPTH names) when the loop is longer.             *)
(***************************************************************************)
C2_LoopNeverMerges ==
    (Finished /\ HasRepeat)
        => result =
             IF FirstRepeat - 1 <= MAX_INHERITANCE_DEPTH
             THEN ThemeCycle(Join(SubSeq(ExtendsNames, 1, FirstRepeat), Arrow))
             ELSE ThemeInheritanceDepth(
                      Join(SubSeq(ExtendsNames, 1, MAX_INHERITANCE_DEPTH), Arrow))

\* A extends B, B extends A.
C2_Witness ==
    /\ pc = "failed"
    /\ HasRepeat
    /\ SubSeq(ExtendsNames, 1, FirstRepeat) = <<ThemeName(1), ThemeName(2), ThemeName(1)>>
    /\ result = ThemeCycle(<<"A", " ", "-", ">", " ", "B", " ", "-", ">", " ", "A">>)

(***************************************************************************)
(* C3  depth cap: a chain of exactly 6 distinct themes fails with          *)
(* ThemeInheritanceDepth; a chain of at most 5 distinct loadable themes    *)
(* succeeds; a successful call merged at most MAX_INHERITANCE_DEPTH trees. *)
(***************************************************************************)
\* The walk ended at a theme that extends nothing, with no name met twice
\* and every theme loaded.
DistinctLoadableChain ==
    /\ ~HasRepeat
    /\ \A i \in 2..Len(ExtendsNames) : Loadable(ExtendsNames[i])

C3_DepthCap ==
    /\ (Finished /\ DistinctLoadableChain /\ Len(ExtendsNames) = 6)
          => result.kind = "ThemeInheritanceDepth"
    /\ (Finished /\ DistinctLoadableChain /\ Len(ExtendsNames) <= 5)
          => (pc = "resolved" /\ result = Ok)
    /\ pc = "resolved" => Len(chain) <= 5

C3_Witness ==
    /\ pc = "failed" /\ DistinctLoadableChain /\ Len(ExtendsNames) = 6
    /\ result.kind = "ThemeInheritanceDepth"

C3_WitnessFive == pc = "resolved" /\ Len(chain) = 5

(***************************************************************************)
(* resolve_all_colors / resolve_color_table / resolve_token_colors         *)
(***************************************************************************)
COLOR_PASSES_one == 0 + 1

\* One pass more than the loop allows.
COLOR_PASSES_plus_one == 10 + 1

\* for _pass in 0..10
COLOR_PASSES == 10

IsColorName(value) == ~StartsWith(value, "#") /\ Len(value) # 0

\* A pass that substitutes nothing.
AliasTarget_none(snapshot, value) == value

\* The body of `for value in resolved.values_mut()`: the new value of one
\* entry, read from the snapshot taken before the pass.
AliasTarget(snapshot, value) ==
    IF IsColorName(value) /\ value \in DOMAIN snapshot /\ snapshot[value] # value
    THEN snapshot[value]
    ELSE value

\* One pass over the entries, visited in the order `order`.
RECURSIVE VisitEntries(_, _, _, _)
VisitEntries(resolved, snapshot, order, i) ==
    IF i > Len(order) THEN resolved
    ELSE VisitEntries([resolved EXCEPT ![order[i]] = AliasTarget(snapshot, @)],
                      snapshot, order, i + 1)

ColorPassOnce(resolved, order) == VisitEntries(resolved, resolved, order, 1)

\* The pass loop: [resolved, passes], passes counting the passes run.
RECURSIVE RunPasses(_, _, _)
RunPasses(resolved, order, n) ==
    IF n >= COLOR_PASSES THEN [resolved |-> resolved, passes |-> n]
    ELSE LET next == ColorPassOnce(resolved, order)
         IN IF next = resolved
            THEN [resolved |-> resolved, passes |-> n + 1]
            ELSE RunPasses(next, order, n + 1)

resolve_color_table(colors, order) == RunPasses(colors, order, 0)

\* A closure that looks every value up, literal colors included.
r_every_value(field, colors) ==
    IF field \in DOMAIN colors THEN colors[field] ELSE field

\* The closure `r` of resolve_token_colors.
r(field, colors) ==
    IF Len(field) # 0 /\ ~StartsWith(field, "#") /\ field \in DOMAIN colors
    THEN colors[field]
    ELSE field

resolve_token_colors(tk) ==
    LET colors == tk.colors
    IN [tk EXCEPT
          !.page.background = r(@, colors),
          !.text.color = r(@, colors),
          !.headings.color = r(@, colors),
          !.code_block.background = r(@, colors),
          !.blockquote.text_color = r(@, colors),
          !.table.header_background = r(@, colors),
          !.links.color = r(@, colors),
          !.images.caption_color = r(@, colors),
          !.footnotes.number_color = r(@, colors),
          !.page_numbers.color = r(@, colors),
          !.syntax = [n \in DOMAIN tk.syntax |->
                        IF n = "background" THEN r(tk.syntax[n], colors)
                        ELSE [tk.syntax[n] EXCEPT !.color = r(@, colors)]]]

\* The iteration orders a HashMap's values_mut() may take.
RECURSIVE Orders(_)
Orders(keys) ==
    IF keys = {} THEN {<<>>}
    ELSE UNION {{<<k>> \o o : o \in Orders(keys \ {k})} : k \in keys}

\* The orders tried: every order of a small table, one of a large one.
MaxOrderedKeys == 3

RECURSIVE SomeOrder(_)
SomeOrder(keys) ==
    IF keys = {} THEN <<>>
    ELSE LET k == CHOOSE x \in keys : TRUE IN <<k>> \o SomeOrder(keys \ {k})

IterationOrders(keys) ==
    IF Cardinality(keys) <= MaxOrderedKeys THEN Orders(keys) ELSE {SomeOrder(keys)}

\* resolve_all_colors
ResolveAllColors ==
    /\ pc = "resolved"
    /\ \E order \in IterationOrders(DOMAIN tokens.colors) :
          LET res == resolve_color_table(tokens.colors, order)
          IN /\ tokens' = resolve_token_colors([tokens EXCEPT !.colors = res.resolved])
             /\ pass' = res.passes
    /\ pc' = "colors_resolved"
    /\ UNCHANGED <<source, builtin, chain, seen_names, result, warnings>>
    /\ UNCHANGED emitVars
    /\ UNCHANGED renderVars

(***************************************************************************)
(* Palettes                                                                *)
(***************************************************************************)
MaxPaletteKeys == 3
MaxAliasChain == 10

KeyDigits == <<"0", "1", "2", "3", "4", "5", "6", "7", "8", "9", "a", "b", "c">>
PaletteKey(i) == <<"k", KeyDigits[i]>>
Literal112233 == <<"#", "1", "1", "2", "2", "3", "3">>

\* key 1 -> key 2 -> ... -> key n+1 = #112233: a chain of n aliases.
AliasChain(n) ==
    [k \in {PaletteKey(i) : i \in 1..(n + 1)} |->
        LET i == CHOOSE j \in 1..(n + 1) : PaletteKey(j) = k
        IN IF i <= n THEN PaletteKey(i + 1) ELSE Literal112233]

\* Every table over the first keys whose entries are a literal, empty, the
\* name of an entry, or a name the table does not hold.
SmallPalettes ==
    UNION {[{PaletteKey(i) : i \in 1..n} ->
               {PaletteKey(i) : i \in 1..n} \cup {Literal112233, <<>>, MissingName}] :
           n \in 0..MaxPaletteKeys}

Palettes == SmallPalettes \cup {AliasChain(n) : n \in 1..MaxAliasChain}

InitPalette ==
    /\ pc = "resolved"
    /\ \E pal \in Palettes, c \in {<<>>, PaletteKey(1), MissingName, Literal112233} :
          tokens = [DefaultTokens EXCEPT !.colors = pal, !.text.color = c]
    /\ builtin = <<>>
    /\ chain = <<>>
    /\ seen_names = {}
    /\ source = NoSource
    /\ result = Ok
    /\ warnings = <<>>
    /\ pass = 0
    /\ EmitIdle
    /\ RenderIdle

SpecPalette == InitPalette /\ [][ResolveAllColors]_vars

\* Following the aliases of entry `key` one at a time: the literal, empty
\* value or unknown name the chain ends in, or "cycle" when it never ends.
RECURSIVE Chase(_, _, _)
Chase(colors, value, fuel) ==
    IF ~IsColorName(value) \/ value \notin DOMAIN colors THEN value
    ELSE IF fuel = 0 THEN <<"c", "y", "c", "l", "e">>
    ELSE Chase(colors, colors[value], fuel - 1)

ChaseEntry(colors, key) == Chase(colors, colors[key], Cardinality(DOMAIN colors))

AllLiteral(colors) ==
    \A k \in DOMAIN colors : colors[k] = <<>> \/ StartsWith(colors[k], "#")

(***************************************************************************)
(* C4  an acyclic alias chain that ends in a literal color: every entry    *)
(* on the chain holds that literal after resolve_color_table, for chains   *)
(* of up to 10 aliases and every visiting order.                           *)
(***************************************************************************)
C4_ChainResolves ==
    [][pc = "resolved" =>
          \A k \in DOMAIN tokens.colors :
              StartsWith(ChaseEntry(tokens.colors, k), "#")
                  => tokens'.colors[k] = ChaseEntry(tokens.colors, k)]_vars

\* a -> b -> ... -> #112233 with 10 aliases, every entry resolved.
C4_Witness ==
    /\ pc = "colors_resolved"
    /\ Cardinality(DOMAIN tokens.colors) = 11
    /\ pass > 2
    /\ \A k \in DOMAIN tokens.colors : tokens.colors[k] = Literal112233

ChainsEnd(colors) ==
    \A k \in DOMAIN colors :
        LET e == ChaseEntry(colors, k) IN e = <<>> \/ StartsWith(e, "#")

Backtick == "backtick"

Whitespace == {" ", "\n", "\t", "\r"}

\* str::trim_start / trim_end / trim
RECURSIVE trim_start(_)
trim_start(s) ==
    IF s # <<>> /\ Head(s) \in Whitespace THEN trim_start(Tail(s)) ELSE s

RECURSIVE trim_end(_)
trim_end(s) ==
    IF s # <<>> /\ s[Len(s)] \in Whitespace
    THEN trim_end(SubSeq(s, 1, Len(s) - 1)) ELSE s

trim(s) == trim_end(trim_start(s))

\* str::repeat(count)
repeat(c, count) == [i \in 1..count |-> c]

Digits == <<"0", "1", "2", "3", "4", "5", "6", "7", "8", "9">>

\* Display for usize: the decimal digits of n.
RECURSIVE Decimal(_)
Decimal(n) ==
    IF n < 10 THEN <<Digits[n + 1]>>
    ELSE Decimal(n \div 10) \o <<Digits[(n % 10) + 1]>>

\* literal.strip_suffix('\n').unwrap_or(&literal)
strip_suffix_newline(s) ==
    IF s # <<>> /\ s[Len(s)] = "\n" THEN SubSeq(s, 1, Len(s) - 1) ELSE s

\* info.split([' ', ',', '\t']).next().unwrap_or("")
RECURSIVE FirstToken(_)
FirstToken(info) ==
    IF info = <<>> \/ Head(info) \in {" ", ",", "\t"} THEN <<>>
    ELSE <<Head(info)>> \o FirstToken(Tail(info))

EscapedChars == {"#", "*", "_", "@", "<", ">", "$", "\\", "~"}

RECURSIVE escape_typst_content(_)
escape_typst_content(s) ==
    IF s = <<>> THEN <<>>
    ELSE (IF Head(s) \in EscapedChars THEN <<"\\", Head(s)>> ELSE <<Head(s)>>)
         \o escape_typst_content(Tail(s))

\* backtick_fence's scan: the longest run of backticks in content[i..].
RECURSIVE ScanRuns(_, _, _, _)
ScanRuns(content, i, current_run, max_run) ==
    IF i > Len(content) THEN max_run
    ELSE IF content[i] = Backtick
         THEN ScanRuns(content, i + 1, current_run + 1, Max(max_run, current_run + 1))
         ELSE ScanRuns(content, i + 1, 0, max_run)

FenceCount_longest_run(max_run) == Max(max_run, 2)

FenceCount(max_run) == Max(max_run, 2) + 1

backtick_fence(content) == repeat(Backtick, FenceCount(ScanRuns(content, 1, 0, 0)))

MERMAID_VPATH_PREFIX == <<"/", "_", "_", "m", "e", "r", "m", "a", "i", "d", "_">>

Mermaid == <<"m", "e", "r", "m", "a", "i", "d">>

(***************************************************************************)
(* SilkprintWarning values the emitter pushes                              *)
(***************************************************************************)
\* A warning that does not say which footnote is missing.
FootnoteNotFound_unnamed(name) == [kind |-> "FootnoteNotFound", name |-> <<>>]

FootnoteNotFound(name) == [kind |-> "FootnoteNotFound", name |-> name]
UnsupportedHtmlTag(tag) == [kind |-> "UnsupportedHtmlTag", name |-> tag]

(***************************************************************************)
(* EmitContext                                                             *)
(***************************************************************************)
NoFootnotes == [n \in {} |-> <<>>]

\* A context that goes on from the diagrams of the render before it.
EmitContext_continued(footnote_map, collector) ==
    [out |-> <<>>, indent |-> 0, footnotes |-> footnote_map,
     table_alignments |-> <<>>, table_cell_index |-> 0,
     in_table_header |-> FALSE, in_tight_list |-> FALSE,
     warnings |-> collector, mermaid_sources |-> <<>>,
     mermaid_counter |-> Len(mermaid_sources)]

EmitContext(footnote_map, collector) ==
    [out |-> <<>>, indent |-> 0, footnotes |-> footnote_map,
     table_alignments |-> <<>>, table_cell_index |-> 0,
     in_table_header |-> FALSE, in_tight_list |-> FALSE,
     warnings |-> collector, mermaid_sources |-> <<>>, mermaid_counter |-> 0]

push(ctx, s) == [ctx EXCEPT !.out = @ \o s]

push_indent(ctx) ==
    [ctx EXCEPT !.out = @ \o Concat([i \in 1..ctx.indent |-> <<" ", " ">>])]

newline(ctx) == [ctx EXCEPT !.out = @ \o <<"\n">>]

\* writeln!(ctx.out, ...)
writeln(ctx, s) == [ctx EXCEPT !.out = @ \o s \o <<"\n">>]

(***************************************************************************)
(* render/html.rs, inline context.  The model reads a fragment made of     *)
(* attribute-free tags and text: an element stays open until its end tag   *)
(* or the end of the fragment, an end tag with no open element is dropped. *)
(***************************************************************************)
\* Index of the first c in s at or after i, Len(s) + 1 when there is none.
RECURSIVE IndexFrom(_, _, _)
IndexFrom(s, c, i) ==
    IF i > Len(s) THEN Len(s) + 1
    ELSE IF s[i] = c THEN i ELSE IndexFrom(s, c, i + 1)

\* One token of the fragment: a start tag, an end tag or a run of text.
TagToken(inner) ==
    IF StartsWith(inner, "/")
    THEN [kind |-> "end", s |-> trim(Tail(inner))]
    ELSE [kind |-> "start",
          s |-> trim(IF inner # <<>> /\ inner[Len(inner)] = "/"
                     THEN SubSeq(inner, 1, Len(inner) - 1) ELSE inner)]

RECURSIVE HtmlTokens(_)
HtmlTokens(s) ==
    IF s = <<>> THEN <<>>
    ELSE IF Head(s) = "<" /\ IndexFrom(s, ">", 1) <= Len(s)
    THEN LET e == IndexFrom(s, ">", 1) IN
         <<TagToken(SubSeq(s, 2, e - 1))>> \o HtmlTokens(SubSeq(s, e + 1, Len(s)))
    ELSE LET n == IndexFrom(s, "<", 2) IN
         <<[kind |-> "text", s |-> SubSeq(s, 1, n - 1)]>>
         \o HtmlTokens(SubSeq(s, n, Len(s)))

TagB == <<"b">>
TagStrong == <<"s", "t", "r", "o", "n", "g">>
TagI == <<"i">>
TagEm == <<"e", "m">>
TagSub == <<"s", "u", "b">>
TagSup == <<"s", "u", "p">>
TagSpan == <<"s", "p", "a", "n">>
TagBr == <<"b", "r">>

TransparentTags == {TagSpan}
\* The tags with a rendering of their own, without the wrappers.
KnownTags_no_wrappers == {TagB, TagStrong, TagI, TagEm, TagSub, TagSup, TagBr}

KnownTags == {TagB, TagStrong, TagI, TagEm, TagSub, TagSup, TagBr} \cup TransparentTags

\* emit_element: what is pushed before and after the element's children.
ElementOpen(tag) ==
    CASE tag \in {TagStrong, TagB} -> <<"*">>
      [] tag \in {TagEm, TagI} -> <<"_">>
      [] tag = TagSub -> <<"#", "s", "u", "b", "[">>
      [] tag = TagSup -> <<"#", "s", "u", "p", "e", "r", "[">>
      [] OTHER -> <<>>

ElementClose(tag) ==
    CASE tag \in {TagStrong, TagB} -> <<"*">>
      [] tag \in {TagEm, TagI} -> <<"_">>
      [] tag \in {TagSub, TagSup} -> <<"]">>
      [] OTHER -> <<>>

\* Closing the open elements from the innermost one down to index `to`.
RECURSIVE CloseDownTo(_, _)
CloseDownTo(open, to) ==
    IF Len(open) < to THEN <<>>
    ELSE ElementClose(open[Len(open)]) \o CloseDownTo(SubSeq(open, 1, Len(open) - 1), to)

\* The innermost open element named tag, 0 when there is none.
RECURSIVE LastOpen(_, _)
LastOpen(open, tag) ==
    IF open = <<>> THEN 0
    ELSE IF open[Len(open)] = tag THEN Len(open)
    ELSE LastOpen(SubSeq(open, 1, Len(open) - 1), tag)

RECURSIVE emit_dom_node(_, _, _, _)
emit_dom_node(toks, open, typst, collector) ==
    IF toks = <<>>
    THEN [typst |-> typst \o CloseDownTo(open, 1), warnings |-> collector]
    ELSE LET tok == Head(toks) IN
      CASE tok.kind = "text" ->
             emit_dom_node(Tail(toks), open,
                           typst \o escape_typst_content(tok.s), collector)
        [] tok.kind = "start" /\ tok.s = TagBr ->
             emit_dom_node(Tail(toks), open, typst \o <<"\\", "\n">>, collector)
        [] tok.kind = "start" /\ tok.s # TagBr ->
             emit_dom_node(Tail(toks), Append(open, tok.s),
                           typst \o ElementOpen(tok.s),
                           IF tok.s \in KnownTags THEN collector
                           ELSE Append(collector, UnsupportedHtmlTag(tok.s)))
        [] tok.kind = "end" ->
             LET at == LastOpen(open, tok.s) IN
             IF at = 0 THEN emit_dom_node(Tail(toks), open, typst, collector)
             ELSE emit_dom_node(Tail(toks), SubSeq(open, 1, at - 1),
                                typst \o CloseDownTo(open, at), collector)

emit_html_inline(html, collector) == emit_dom_node(HtmlTokens(html), <<>>, <<>>, collector)

\* decode_html_entity; the numeric forms are not among the model's inputs.
decode_html_entity(s) ==
    CASE s = <<"&", "a", "m", "p", ";">> -> <<"&">>
      [] s = <<"&", "l", "t", ";">> -> <<"<">>
      [] s = <<"&", "g", "t", ";">> -> <<">">>
      [] OTHER -> escape_typst_content(s)

(***************************************************************************)
(* emit_node and its helpers (render/markdown.rs).  Each operator takes    *)
(* the EmitContext and returns it as the code leaves it.                   *)
(***************************************************************************)
is_opening_html_tag(s) ==
    /\ StartsWith(s, "<")
    /\ ~(Len(s) >= 2 /\ SubSeq(s, 1, 2) = <<"<", "/">>)
    /\ ~(Len(s) >= 2 /\ SubSeq(s, Len(s) - 1, Len(s)) = <<"/", ">">>)
    /\ Len(s) > 2
    /\ s[Len(s)] = ">"

is_closing_html_tag(s) ==
    /\ Len(s) >= 2 /\ SubSeq(s, 1, 2) = <<"<", "/">>
    /\ s[Len(s)] = ">"

\* An inner loop for which any closing tag ends the fragment.
RECURSIVE Accumulate_flat(_, _, _, _)
Accumulate_flat(children, i, buf, depth) ==
    IF ~(i <= Len(children) /\ depth > 0) THEN [i |-> i, buf |-> buf]
    ELSE LET c == children[i] IN
      CASE c.kind = "HtmlInline" ->
             Accumulate_flat(children, i + 1, buf \o c.literal,
                        IF is_opening_html_tag(c.literal) THEN depth + 1
                        ELSE IF is_closing_html_tag(c.literal) THEN 0
                        ELSE depth)
        [] c.kind = "Text" -> Accumulate_flat(children, i + 1, buf \o c.literal, depth)
        [] OTHER -> [i |-> i, buf |-> buf]

\* An inner loop that steps over the sibling that ends the fragment.
RECURSIVE Accumulate_past_breaker(_, _, _, _)
Accumulate_past_breaker(children, i, buf, depth) ==
    IF ~(i <= Len(children) /\ depth > 0) THEN [i |-> i, buf |-> buf]
    ELSE LET c == children[i] IN
      CASE c.kind = "HtmlInline" ->
             Accumulate_past_breaker(children, i + 1, buf \o c.literal,
                        IF is_opening_html_tag(c.literal) THEN depth + 1
                        ELSE IF is_closing_html_tag(c.literal) THEN Max(depth - 1, 0)
                        ELSE depth)
        [] c.kind = "Text" ->
             Accumulate_past_breaker(children, i + 1, buf \o c.literal, depth)
        [] OTHER -> [i |-> i + 1, buf |-> buf]

\* The inner loop of emit_children: siblings from index i on are appended
\* to buf until the tags balance or a node that is neither HTML nor text
\* is met.  Yields the index the outer loop continues at and the fragment.
RECURSIVE Accumulate(_, _, _, _)
Accumulate(children, i, buf, depth) ==
    IF ~(i <= Len(children) /\ depth > 0) THEN [i |-> i, buf |-> buf]
    ELSE LET c == children[i] IN
      CASE c.kind = "HtmlInline" ->
             Accumulate(children, i + 1, buf \o c.literal,
                        IF is_opening_html_tag(c.literal) THEN depth + 1
                        ELSE IF is_closing_html_tag(c.literal) THEN Max(depth - 1, 0)
                        ELSE depth)
        [] c.kind = "Text" -> Accumulate(children, i + 1, buf \o c.literal, depth)
        [] OTHER -> [i |-> i, buf |-> buf]

\* collect_text: the text of the Text nodes among the node's descendants.
collect_text(node) ==
    LET d == descendants(node) IN
    Concat([i \in 1..Len(d) |-> IF d[i].kind = "Text" THEN d[i].literal ELSE <<>>])

has_empty_header_first_cell(table_node) ==
    /\ table_node.children # <<>>
    /\ table_node.children[1].kind = "TableRow"
    /\ table_node.children[1].is_header
    /\ table_node.children[1].children # <<>>
    /\ trim(collect_text(table_node.children[1].children[1])) = <<>>

has_empty_header(table_node) ==
    /\ table_node.children # <<>>
    /\ table_node.children[1].kind = "TableRow"
    /\ table_node.children[1].is_header
    /\ \A cell \in Range(table_node.children[1].children) :
          trim(collect_text(cell)) = <<>>

AlignStr(a) ==
    CASE a = "Left" -> <<"l", "e", "f", "t">>
      [] a = "Center" -> <<"c", "e", "n", "t", "e", "r">>
      [] a = "Right" -> <<"r", "i", "g", "h", "t">>
      [] a = "None" -> <<"a", "u", "t", "o">>

TableOpen(node) ==
    <<"t", "a", "b", "l", "e", "(", "\n", " ", " ", "c", "o", "l", "u", "m", "n", "s", ":", " ">> \o Decimal(node.num_columns) \o <<",", "\n", " ", " ", "a", "l", "i", "g", "n", ":", " ", "(">>
    \o Join([i \in 1..Len(node.alignments) |-> AlignStr(node.alignments[i])], <<",", " ">>)
    \o <<",", ")", ",">>

\* Entering a List node: `ctx.in_tight_list = tight`.
EnterList_loose(ctx, tight) == [ctx EXCEPT !.in_tight_list = FALSE]

EnterList(ctx, tight) == [ctx EXCEPT !.in_tight_list = tight]

\* A List node that leaves the flag as its items had it.
LeaveList_kept(ctx, prev_tight) == ctx

\* Leaving a List node: `ctx.in_tight_list = prev_tight`.
LeaveList(ctx, prev_tight) == [ctx EXCEPT !.in_tight_list = prev_tight]

RECURSIVE emit_node(_, _)
RECURSIVE emit_children(_, _)
RECURSIVE emit_children_loop(_, _, _)
RECURSIVE emit_list_item_children_loop(_, _, _)
RECURSIVE emit_list_loop(_, _, _)
RECURSIVE emit_table_loop(_, _, _, _)
RECURSIVE emit_each(_, _, _)

\* `for child in node.children() { emit_node(child, ctx) }`
emit_each(children, i, ctx) ==
    IF i > Len(children) THEN ctx
    ELSE emit_each(children, i + 1, emit_node(children[i], ctx))

emit_children_loop(children, i, ctx) ==
    IF ~(i <= Len(children)) THEN ctx
    ELSE IF children[i].kind = "HtmlInline" /\ is_opening_html_tag(children[i].literal)
    THEN LET acc == Accumulate(children, i + 1, children[i].literal, 1)
             conv == emit_html_inline(acc.buf, ctx.warnings)
         IN emit_children_loop(children, acc.i,
                push([ctx EXCEPT !.warnings = conv.warnings], conv.typst))
    ELSE emit_children_loop(children, i + 1, emit_node(children[i], ctx))

emit_children(node, ctx) == emit_children_loop(node.children, 1, ctx)

emit_list_item_children_loop(children, i, ctx) ==
    IF i > Len(children) THEN ctx
    ELSE emit_list_item_children_loop(children, i + 1,
            IF children[i].kind = "Paragraph" /\ ctx.in_tight_list
            THEN emit_children(children[i], ctx)
            ELSE emit_node(children[i], ctx))

emit_list_item_children(node, ctx) ==
    emit_list_item_children_loop(node.children, 1, ctx)

\* The children loop of a List node.
emit_list_loop(list, i, ctx) ==
    IF i > Len(list.children) THEN ctx
    ELSE LET child == list.children[i] IN
         IF child.kind = "Item"
         THEN LET marked == push(push_indent(ctx),
                                 IF list.is_ordered THEN <<"+", " ">> ELSE <<"-", " ">>)
                  inside == emit_list_item_children(child,
                                [marked EXCEPT !.indent = @ + 1])
              IN emit_list_loop(list, i + 1,
                                newline([inside EXCEPT !.indent = @ - 1]))
         ELSE emit_list_loop(list, i + 1, emit_node(child, ctx))

\* The children loop of a Table node.
emit_table_loop(children, i, empty_header, ctx) ==
    IF i > Len(children) THEN ctx
    ELSE IF empty_header /\ children[i].kind = "TableRow" /\ children[i].is_header
    THEN emit_table_loop(children, i + 1, empty_header, ctx)
    ELSE emit_table_loop(children, i + 1, empty_header, emit_node(children[i], ctx))

emit_node(node, ctx) ==
    CASE node.kind \in {"FrontMatter", "FootnoteDefinition"} -> ctx
      [] node.kind = "Paragraph" ->
           LET before == IF ~ctx.in_tight_list THEN newline(ctx) ELSE ctx
               inside == emit_children(node, before)
           IN IF ~inside.in_tight_list THEN newline(inside) ELSE inside
      [] node.kind = "Heading" ->
           newline(emit_children(node,
               push(push(newline(ctx), repeat("=", node.level)), <<" ">>)))
      [] node.kind = "Text" -> push(ctx, escape_typst_content(node.literal))
      [] node.kind = "SoftBreak" -> push(ctx, <<"\n">>)
      [] node.kind = "LineBreak" -> push(ctx, <<" ", "\\", "\n">>)
      [] node.kind = "Strong" -> push(emit_children(node, push(ctx, <<"*">>)), <<"*">>)
      [] node.kind = "Emph" -> push(emit_children(node, push(ctx, <<"_">>)), <<"_">>)
      [] node.kind = "Strikethrough" ->
           push(emit_children(node, push(ctx, <<"#", "s", "t", "r", "i", "k", "e", "[">>)), <<"]">>)
      [] node.kind = "Code" ->
           LET ticks == repeat(Backtick, Max(node.num_backticks, 1)) IN
           IF StartsWith(node.literal, Backtick)
              \/ (node.literal # <<>> /\ node.literal[Len(node.literal)] = Backtick)
           THEN push(ctx, ticks \o <<" ">> \o node.literal \o <<" ">> \o ticks)
           ELSE push(ctx, ticks \o node.literal \o ticks)
      [] node.kind = "BlockQuote" ->
           push(emit_children(node, push(newline(ctx), <<"#", "q", "u", "o", "t", "e", "(", "b", "l", "o", "c", "k", ":", " ", "t", "r", "u", "e", ")", "[", "\n">>)),
                <<"]", "\n">>)
      [] node.kind = "List" ->
           LET prev_tight == ctx.in_tight_list
               opened == newline(EnterList(ctx, node.tight))
               started == IF node.is_ordered /\ node.start > 1
                          THEN writeln(opened, <<"#", "s", "e", "t", " ", "e", "n", "u", "m", "(", "s", "t", "a", "r", "t", ":", " ">>
                                               \o Decimal(node.start) \o <<")">>)
                          ELSE opened
           IN LeaveList(emit_list_loop(node, 1, started), prev_tight)
      [] node.kind \in {"Item", "Document"} -> emit_children(node, ctx)
      [] node.kind = "CodeBlock" ->
           LET lang == FirstToken(node.info) IN
           IF lang = Mermaid
           THEN LET idx == ctx.mermaid_counter IN
                writeln(newline([ctx EXCEPT
                            !.mermaid_counter = @ + 1,
                            !.mermaid_sources = Append(@, node.literal)]),
                        <<"#", "a", "l", "i", "g", "n", "(", "c", "e", "n", "t", "e", "r", ")", "[", "#", "i", "m", "a", "g", "e", "(", "\"">> \o MERMAID_VPATH_PREFIX
                        \o Decimal(idx) \o <<".", "s", "v", "g", "\"", ")", "]">>)
           ELSE LET fence == backtick_fence(node.literal) IN
                writeln(newline(push(writeln(newline(ctx), fence \o lang),
                                     strip_suffix_newline(node.literal))),
                        fence)
      [] node.kind = "HtmlInline" ->
           IF StartsWith(node.literal, "<") /\ Len(node.literal) > 1
           THEN LET conv == emit_html_inline(node.literal, ctx.warnings) IN
                push([ctx EXCEPT !.warnings = conv.warnings], conv.typst)
           ELSE push(ctx, decode_html_entity(node.literal))
      [] node.kind = "Table" ->
           LET empty_header == has_empty_header(node)
               begun == newline([ctx EXCEPT !.table_alignments = node.alignments])
               opened == IF empty_header
                         THEN writeln(push(push(push(begun, <<"#", "{", "\n">>),
                                <<"s", "h", "o", "w", " ", "t", "a", "b", "l", "e", ".", "c", "e", "l", "l", ".", "w", "h", "e", "r", "e", "(", "y", ":", " ", "0", ")", ":", " ", "s", "e", "t", " ", "t", "e", "x", "t", "(", "w", "e", "i", "g", "h", "t", ":", " ", "4", "0", "0", ")", "\n">>),
                                <<"s", "h", "o", "w", " ", "t", "a", "b", "l", "e", ".", "c", "e", "l", "l", ".", "w", "h", "e", "r", "e", "(", "y", ":", " ", "0", ")", ":", " ", "s", "e", "t", " ", "t", "a", "b", "l", "e", ".", "c", "e", "l", "l", "(", "f", "i", "l", "l", ":", " ", "n", "o", "n", "e", ",", " ", "s", "t", "r", "o", "k", "e", ":", " ", "n", "o", "n", "e", ")", "\n">>),
                                TableOpen(node))
                         ELSE writeln(begun, <<"#">> \o TableOpen(node))
               rows == emit_table_loop(node.children, 1, empty_header, opened)
               closed == push(rows, <<")", "\n">>)
           IN [(IF empty_header THEN push(closed, <<"}", "\n">>) ELSE closed)
                  EXCEPT !.table_alignments = <<>>]
      [] node.kind = "TableRow" ->
           emit_each(node.children, 1,
                     [ctx EXCEPT !.in_table_header = node.is_header,
                                 !.table_cell_index = 0])
      [] node.kind = "TableCell" ->
           [push(emit_children(node, push(ctx, <<" ", " ", "[">>)), <<"]", ",", "\n">>)
               EXCEPT !.table_cell_index = @ + 1]
      [] node.kind = "FootnoteReference" ->
           IF node.name \in DOMAIN ctx.footnotes
           THEN push(ctx, <<"#", "f", "o", "o", "t", "n", "o", "t", "e", "[">> \o trim(ctx.footnotes[node.name]) \o <<"]">>)
           ELSE [push(ctx, <<"#", "s", "u", "p", "e", "r", "[">> \o escape_typst_content(node.name) \o <<"]">>)
                    EXCEPT !.warnings = Append(@, FootnoteNotFound(node.name))]

(***************************************************************************)
(* emit_typst: pass 1 collects the footnote definitions, pass 2 walks the  *)
(* tree from the root.                                                     *)
(***************************************************************************)
\* HashMap::insert
insert_dropped(map, key, value) == map

insert(map, key, value) ==
    [k \in DOMAIN map \cup {key} |-> IF k = key THEN value ELSE map[k]]

RECURSIVE CollectLoop(_, _, _, _)
CollectLoop(nodes, i, map, collector) ==
    IF i > Len(nodes) THEN [map |-> map, warnings |-> collector]
    ELSE IF nodes[i].kind = "FootnoteDefinition"
    THEN LET fn_ctx == emit_children(nodes[i], EmitContext(map, collector)) IN
         CollectLoop(nodes, i + 1, insert(map, nodes[i].name, fn_ctx.out),
                     fn_ctx.warnings)
    ELSE CollectLoop(nodes, i + 1, map, collector)

collect_footnote_definitions(root_node, collector) ==
    CollectLoop(descendants(root_node), 1, NoFootnotes, collector)

ThemeIdle ==
    /\ builtin = <<>>
    /\ tokens = DefaultTokens
    /\ chain = <<>>
    /\ seen_names = {}
    /\ source = NoSource
    /\ result = Pending
    /\ pass = 0

\* emit_typst, first pass
CollectFootnotes ==
    /\ pc = "emit_typst"
    /\ LET collected == collect_footnote_definitions(root, warnings) IN
          /\ footnotes' = collected.map
          /\ warnings' = collected.warnings
    /\ pc' = "emit_node"
    /\ UNCHANGED <<root, out, mermaid_sources>>
    /\ UNCHANGED themeVars
    /\ UNCHANGED renderVars

\* emit_typst, second pass and return value
EmitRoot ==
    /\ pc = "emit_node"
    /\ LET ctx == emit_node(root, EmitContext(footnotes, warnings)) IN
          /\ out' = ctx.out
          /\ mermaid_sources' = ctx.mermaid_sources
          /\ warnings' = ctx.warnings
    /\ pc' = "emitted"
    /\ UNCHANGED <<root, footnotes>>
    /\ UNCHANGED themeVars
    /\ UNCHANGED renderVars

NextEmit == CollectFootnotes \/ EmitRoot

(***************************************************************************)
(* Documents                                                               *)
(***************************************************************************)
\* All sequences over `alphabet` of length at most n.
Strings(alphabet, n) == UNION {[1..k -> alphabet] : k \in 0..n}

\* Sequences of pairwise distinct elements of `set`, of length 1..n.
DistinctSeqs(set, n) ==
    {s \in UNION {[1..k -> set] : k \in 1..n} :
        \A i, j \in DOMAIN s : i # j => s[i] # s[j]}

\* -- footnotes --
MaxBlocks == 3
FootnoteNames == {<<"1">>, <<"n">>}
OtherName(name) == CHOOSE n \in FootnoteNames : n # name

ReferenceParagraph(name) ==
    Paragraph(<<Text(<<"a">>), FootnoteReference(name), Text(<<"b">>)>>)

PlainBodies ==
    {<<Paragraph(<<Text(<<"x">>)>>)>>,
     <<Paragraph(<<Text(<<"x">>)>>), Paragraph(<<Text(<<"y", "#">>)>>)>>}

NestedBody(name) == <<Paragraph(<<Text(<<"z">>), FootnoteReference(name)>>)>>

FootnoteBlocks ==
    {ReferenceParagraph(n) : n \in FootnoteNames}
    \cup {FootnoteDefinition(n, b) : n \in FootnoteNames, b \in PlainBodies}
    \cup {FootnoteDefinition(n, NestedBody(OtherName(n))) : n \in FootnoteNames}

FootnoteDocs ==
    {Document(blocks) : blocks \in
        {s \in DistinctSeqs(FootnoteBlocks, MaxBlocks) :
            \A i, j \in DOMAIN s :
                (i # j /\ s[i].kind = "FootnoteDefinition"
                       /\ s[j].kind = "FootnoteDefinition")
                => s[i].name # s[j].name}}

\* -- lists --
MaxItems == 2
SimpleItem(t) == Item(<<Paragraph(<<Text(t)>>)>>)
NestedItem(tight) ==
    Item(<<Paragraph(<<Text(<<"p">>)>>),
           List(FALSE, tight, 1, <<SimpleItem(<<"q">>)>>),
           Paragraph(<<Text(<<"r">>)>>)>>)
ListItems == {SimpleItem(<<"a">>), SimpleItem(<<"b">>)} \cup {NestedItem(t) : t \in BOOLEAN}

ListDocs ==
    {Document(<<List(ordered, tight, 1, items)>> \o after) :
        ordered \in BOOLEAN, tight \in BOOLEAN,
        items \in UNION {[1..k -> ListItems] : k \in 1..MaxItems},
        after \in {<<>>, <<Paragraph(<<Text(<<"e">>)>>)>>}}

\* -- tables --
MaxColumns == 2
MaxRows == 2
HeaderCells ==
    {TableCell(<<>>), TableCell(<<Text(<<" ">>)>>), TableCell(<<Text(<<"h">>)>>),
     TableCell(<<Strong(<<Text(<<"h">>)>>)>>), TableCell(<<Code(<<"c">>, 1)>>)}
DataCell == TableCell(<<Text(<<"d">>)>>)

TableDocsOf(n) ==
    {Document(<<Table(alignments,
                      <<TableRow(TRUE, header)>>
                      \o [row \in 1..rows |-> TableRow(FALSE, [c \in 1..n |-> DataCell])])>>) :
        rows \in 0..MaxRows,
        header \in [1..n -> HeaderCells],
        alignments \in [1..n -> {"None", "Left"}]}

TableDocs == UNION {TableDocsOf(n) : n \in 1..MaxColumns}

\* -- code blocks --
MaxLiteralLen == 5
CodeDocs ==
    {Document(<<CodeBlock(info, literal)>>) :
        info \in {<<>>, <<"r", "s">>, <<"r", "s", " ", "x">>},
        literal \in Strings({Backtick, "a", "\n"}, MaxLiteralLen)}

\* -- inline markup, inline HTML, block quotes, headings, diagrams --
TagOpen(tag) == <<"<">> \o tag \o <<">">>
TagEnd(tag) == <<"<", "/">> \o tag \o <<">">>

InlineRuns ==
    {<<Text(<<"a">>), Strong(<<Text(<<"b">>)>>), Emph(<<Text(<<"c", "*">>)>>)>>,
     <<HtmlInline(TagOpen(TagB)), Text(<<"x", "#">>), HtmlInline(TagEnd(TagB)), Text(<<"y">>)>>,
     <<HtmlInline(TagOpen(TagSup)), HtmlInline(TagOpen(TagI)), Text(<<"x">>),
       HtmlInline(TagEnd(TagI)), HtmlInline(TagEnd(TagSup))>>,
     <<HtmlInline(TagOpen(<<"q">>)), Text(<<"x">>), Emph(<<Text(<<"e">>)>>),
       HtmlInline(TagEnd(<<"q">>)), HtmlInline(<<"<", "b", "r", "/", ">">>)>>,
     <<Text(<<"a">>), HtmlInline(<<"&", "a", "m", "p", ";">>), SoftBreak, Code(<<Backtick, "c">>, 2), LineBreak,
       Strikethrough(<<Text(<<"s">>)>>)>>,
     <<HtmlInline(TagOpen(TagSup)), HtmlInline(TagOpen(TagI)), Text(<<"x">>),
       HtmlInline(TagEnd(TagI)), Text(<<"y">>), HtmlInline(TagEnd(TagSup)),
       Text(<<"z", "#">>)>>,
     <<Text(<<"a">>), HtmlInline(TagOpen(TagB)), Text(<<"x">>)>>,
     <<HtmlInline(TagOpen(TagSpan)), Text(<<"x">>), HtmlInline(TagOpen(<<"q">>)),
       Text(<<"y">>), HtmlInline(TagEnd(<<"q">>)), HtmlInline(TagEnd(TagSpan)),
       Text(<<"z">>)>>,
     <<HtmlInline(TagOpen(<<"q">>)), HtmlInline(TagOpen(<<"k">>)), Text(<<"x">>),
       HtmlInline(TagEnd(<<"k">>)), HtmlInline(TagEnd(<<"q">>))>>,
     <<HtmlInline(TagOpen(TagB)), HtmlInline(TagOpen(<<"q">>)), Text(<<"x", "#">>),
       HtmlInline(TagEnd(<<"q">>)), HtmlInline(TagEnd(TagB))>>,
     <<HtmlInline(TagOpen(TagB)), HtmlInline(TagEnd(TagB)),
       HtmlInline(TagOpen(TagI)), Text(<<"y">>), HtmlInline(TagEnd(TagI))>>,
     <<HtmlInline(TagOpen(<<"q">>)), Text(<<"1">>), Emph(<<Text(<<"2">>)>>),
       Text(<<"3">>), HtmlInline(TagEnd(<<"q">>)), Text(<<"4">>)>>,
     <<Text(<<"1">>), HtmlInline(TagOpen(TagB)), Text(<<"2">>),
       HtmlInline(TagOpen(TagI)), Text(<<"3">>), HtmlInline(TagEnd(TagI)),
       HtmlInline(TagEnd(TagB)), Text(<<"4">>), HtmlInline(TagOpen(TagSup)),
       Text(<<"5">>), Code(<<"6">>, 1), Text(<<"7">>)>>,
     <<HtmlInline(TagOpen(TagB)), Strong(<<Text(<<"1">>)>>),
       HtmlInline(TagOpen(TagI)), Text(<<"2">>)>>,
     <<Strikethrough(<<Text(<<"a", "]", "b">>)>>)>>,
     <<Text(<<"a">>), Strikethrough(<<Text(<<"x", "[", "#">>)>>), Text(<<"b">>)>>}

InlineDocs ==
    {Document(<<Paragraph(run)>>) : run \in InlineRuns}
    \cup {Document(<<Heading(2, run), BlockQuote(<<Paragraph(run)>>)>>) : run \in InlineRuns}
    \cup {Document(<<CodeBlock(Mermaid, <<"g">>),
                     List(TRUE, TRUE, 12, <<SimpleItem(<<"a">>)>>),
                     CodeBlock(<<"m", "e", "r", "m", "a", "i", "d", " ", "x">>, <<"h">>)>>)}

\* -- diagrams, at the top level and inside a footnote definition --
DiagramBlocks ==
    {CodeBlock(Mermaid, <<"g">>), CodeBlock(Mermaid, <<"h">>),
     CodeBlock(<<"r", "s">>, <<"c">>),
     ReferenceParagraph(<<"1">>),
     FootnoteDefinition(<<"1">>, <<Paragraph(<<Text(<<"x">>)>>)>>),
     FootnoteDefinition(<<"1">>, <<Paragraph(<<Text(<<"x">>)>>),
                                   CodeBlock(Mermaid, <<"f">>)>>)}

DiagramDocs ==
    {Document(blocks) : blocks \in
        {s \in DistinctSeqs(DiagramBlocks, MaxBlocks) :
            \A i, j \in DOMAIN s :
                i # j => (s[i].kind # "FootnoteDefinition"
                          \/ s[j].kind # "FootnoteDefinition")}}

EmitDocs ==
    FootnoteDocs \cup ListDocs \cup TableDocs \cup CodeDocs \cup InlineDocs
    \cup DiagramDocs

InitEmit ==
    /\ pc = "emit_typst"
    /\ root \in EmitDocs
    /\ footnotes = <<>>
    /\ out = <<>>
    /\ mermaid_sources = <<>>
    /\ warnings = <<>>
    /\ ThemeIdle
    /\ RenderIdle

SpecEmit == InitEmit /\ [][NextEmit]_vars

(***************************************************************************)
(* C6  Footnote forward reference.                                         *)
(***************************************************************************)
FootnoteN1 == <<"1">>

TwoParagraphBody == <<Paragraph(<<Text(<<"x">>)>>), Paragraph(<<Text(<<"y", "#">>)>>)>>

\* The definition of `name` at the top level of doc, as a set (empty when
\* the document does not define it).
DefinitionsOf(doc, name) ==
    {b \in Range(doc.children) : b.kind = "FootnoteDefinition" /\ b.name = name}

\* The rendered body of a definition whose body is plain paragraphs: the
\* paragraphs' escaped text, a blank line between two paragraphs.
PlainRendering(body) ==
    Join([i \in 1..Len(body) |-> escape_typst_content(body[i].children[1].literal)],
         <<"\n", "\n">>)

\* The references of doc's body all name a definition with a plain body.
PlainlyDefined(doc) ==
    \A b \in Range(doc.children) :
        b.kind = "Paragraph" =>
            \E def \in DefinitionsOf(doc, b.children[2].name) :
                def.children \in PlainBodies

FootnoteBlockRendering(doc, b) ==
    IF b.kind = "FootnoteDefinition" THEN <<>>
    ELSE LET def == CHOOSE def \in DefinitionsOf(doc, b.children[2].name) : TRUE IN
         <<"\n", "a", "#", "f", "o", "o", "t", "n", "o", "t", "e", "[">> \o PlainRendering(def.children) \o <<"]", "b", "\n">>

\* C6: wherever the definition stands in the document, before or after the
\* reference, the reference is emitted as #footnote[...] holding the
\* definition's rendered body, and the definition emits nothing where it
\* stands.
C6_ForwardReference ==
    (pc = "emitted" /\ root \in FootnoteDocs /\ PlainlyDefined(root)) =>
        out = Concat([i \in 1..Len(root.children) |->
                        FootnoteBlockRendering(root, root.children[i])])

\* A reference followed by its definition.
C6_Witness ==
    /\ pc = "emitted"
    /\ root = Document(<<ReferenceParagraph(FootnoteN1),
                         FootnoteDefinition(FootnoteN1, TwoParagraphBody)>>)
    /\ out = <<"\n", "a", "#", "f", "o", "o", "t", "n", "o", "t", "e", "[", "x", "\n", "\n", "y", "\\", "#", "]", "b", "\n">>

(***************************************************************************)
(* C7  Tight versus loose lists.                                           *)
(***************************************************************************)
ParagraphText(p) == p.children[1].literal

\* What the claim describes for a list: after a newline, each item is its
\* indented marker, its children and a newline; a paragraph of an item is
\* its bare text in a tight list and its text between two newlines in a
\* loose one; a nested list follows the same rule with its own flag.
RECURSIVE ListRendering(_, _)
ListRendering(list, depth) ==
    <<"\n">> \o Concat([i \in 1..Len(list.children) |->
        Concat([k \in 1..depth |-> <<" ", " ">>])
        \o (IF list.is_ordered THEN <<"+", " ">> ELSE <<"-", " ">>)
        \o Concat([j \in 1..Len(list.children[i].children) |->
              LET c == list.children[i].children[j] IN
              IF c.kind = "Paragraph"
              THEN (IF list.tight THEN ParagraphText(c)
                    ELSE <<"\n">> \o ParagraphText(c) \o <<"\n">>)
              ELSE ListRendering(c, depth + 1)])
        \o <<"\n">>])

ListDocRendering(doc) ==
    Concat([i \in 1..Len(doc.children) |->
        IF doc.children[i].kind = "List" THEN ListRendering(doc.children[i], 0)
        ELSE <<"\n">> \o ParagraphText(doc.children[i]) \o <<"\n">>])

\* C7: in a tight list an item's paragraph is unwrapped, its content
\* following the marker with no newline before or after it; in a loose list
\* the paragraph keeps its leading and trailing newline.
C7_TightLoose ==
    (pc = "emitted" /\ root \in ListDocs) => out = ListDocRendering(root)

\* A tight list whose first item holds a loose list.
C7_Witness ==
    /\ pc = "emitted"
    /\ root = Document(<<List(FALSE, TRUE, 1, <<NestedItem(FALSE), SimpleItem(<<"a">>)>>),
                         Paragraph(<<Text(<<"e">>)>>)>>)
    /\ out = <<"\n", "-", " ", "p", "\n", " ", " ", "-", " ", "\n", "q", "\n", "\n", "r", "\n", "-", " ", "a", "\n", "\n", "e", "\n">>

(***************************************************************************)
(* C8  Fence collision avoidance.                                          *)
(***************************************************************************)
\* s holds n consecutive backticks somewhere.
HasRun(s, n) ==
    \E i \in 1..(Len(s) - n + 1) : \A j \in i..(i + n - 1) : s[j] = Backtick

LongestRun(s) == CHOOSE n \in 0..Len(s) : HasRun(s, n) /\ ~HasRun(s, n + 1)

\* The length of the run of backticks s begins with.
RECURSIVE LeadingRun(_)
LeadingRun(s) ==
    IF s # <<>> /\ Head(s) = Backtick THEN 1 + LeadingRun(Tail(s)) ELSE 0

\* C8: the fence of a code block is max(longest backtick run of the body,
\* 2) + 1 backticks: longer than every run of the body and never shorter
\* than 3; the block opens and closes with that fence.
C8_FenceLength ==
    (pc = "emitted" /\ root \in CodeDocs) =>
        LET body == root.children[1].literal
            fence == LeadingRun(Tail(out))
        IN /\ backtick_fence(body) = repeat(Backtick, Max(LongestRun(body), 2) + 1)
           /\ fence = Max(LongestRun(body), 2) + 1
           /\ fence > LongestRun(body)
           /\ fence >= 3
           /\ SubSeq(out, Len(out) - fence - 1, Len(out))
                = <<"\n">> \o repeat(Backtick, fence) \o <<"\n">>

\* A body with a run of exactly 3 backticks is fenced with 4.
C8_Witness ==
    /\ pc = "emitted"
    /\ root = Document(<<CodeBlock(<<"r", "s">>, <<"a", Backtick, Backtick, Backtick>>)>>)
    /\ out = <<"\n", Backtick, Backtick, Backtick, Backtick, "r", "s", "\n", "a", Backtick, Backtick, Backtick, "\n", Backtick, Backtick, Backtick, Backtick, "\n">>

(***************************************************************************)
(* C9  Empty-header table suppression.                                     *)
(***************************************************************************)
\* The text of a cell: its Text nodes, in order.
RECURSIVE FlattenedText(_)
FlattenedText(node) ==
    IF node.kind = "Text" THEN node.literal
    ELSE Concat([i \in 1..Len(node.children) |-> FlattenedText(node.children[i])])

IsBlank(s) == \A i \in DOMAIN s : s[i] \in Whitespace

\* The header cells hold nothing but text (possibly emphasised).
RECURSIVE TextOnly(_)
TextOnly(node) ==
    /\ node.kind \in {"TableCell", "Text", "Strong", "Emph"}
    /\ \A i \in DOMAIN node.children : TextOnly(node.children[i])

HeaderOf(table) == table.children[1].children

TextOnlyHeader(table) == \A i \in DOMAIN HeaderOf(table) : TextOnly(HeaderOf(table)[i])

BlankHeader(table) ==
    \A i \in DOMAIN HeaderOf(table) : IsBlank(FlattenedText(HeaderOf(table)[i]))

HeaderCellRendering(cell) ==
    <<" ", " ", "[">>
    \o (IF cell.children = <<>> THEN <<>>
        ELSE IF cell.children[1].kind = "Strong"
        THEN <<"*">> \o FlattenedText(cell) \o <<"*">>
        ELSE FlattenedText(cell))
    \o <<"]", ",", "\n">>

DataCellsRendering(table) ==
    Concat([i \in 1..((Len(table.children) - 1) * table.num_columns) |-> <<" ", " ", "[", "d", "]", ",", "\n">>])

TableHead(table) ==
    <<"t", "a", "b", "l", "e", "(", "\n", " ", " ", "c", "o", "l", "u", "m", "n", "s", ":", " ">> \o <<Digits[table.num_columns + 1]>> \o <<",", "\n", " ", " ", "a", "l", "i", "g", "n", ":", " ", "(">>
    \o Join([i \in 1..Len(table.alignments) |->
                IF table.alignments[i] = "Left" THEN <<"l", "e", "f", "t">> ELSE <<"a", "u", "t", "o">>], <<",", " ">>)
    \o <<",", ")", ",", "\n">>

ResetFirstRowStyling ==
    <<"s", "h", "o", "w", " ", "t", "a", "b", "l", "e", ".", "c", "e", "l", "l", ".", "w", "h", "e", "r", "e", "(", "y", ":", " ", "0", ")", ":", " ", "s", "e", "t", " ", "t", "e", "x", "t", "(", "w", "e", "i", "g", "h", "t", ":", " ", "4", "0", "0", ")", "\n">>
    \o <<"s", "h", "o", "w", " ", "t", "a", "b", "l", "e", ".", "c", "e", "l", "l", ".", "w", "h", "e", "r", "e", "(", "y", ":", " ", "0", ")", ":", " ", "s", "e", "t", " ", "t", "a", "b", "l", "e", ".", "c", "e", "l", "l", "(", "f", "i", "l", "l", ":", " ", "n", "o", "n", "e", ",", " ", "s", "t", "r", "o", "k", "e", ":", " ", "n", "o", "n", "e", ")", "\n">>

\* C9: when every header cell's flattened text is blank, no header cell is
\* emitted (the data rows' cells only) and the first-row styling is reset;
\* otherwise the header row's cells come first.
C9_EmptyHeader ==
    (pc = "emitted" /\ root \in TableDocs /\ TextOnlyHeader(root.children[1])) =>
        LET table == root.children[1] IN
        IF BlankHeader(table)
        THEN out = <<"\n", "#", "{", "\n">> \o ResetFirstRowStyling \o TableHead(table)
                   \o DataCellsRendering(table) \o <<")", "\n", "}", "\n">>
        ELSE out = <<"\n", "#">> \o TableHead(table)
                   \o Concat([i \in 1..table.num_columns |->
                                HeaderCellRendering(HeaderOf(table)[i])])
                   \o DataCellsRendering(table) \o <<")", "\n">>

\* Two blank header cells (one empty, one a space) over one data row.
C9_Witness ==
    /\ pc = "emitted"
    /\ root = Document(<<Table(<<"None", "Left">>,
                  <<TableRow(TRUE, <<TableCell(<<>>), TableCell(<<Text(<<" ">>)>>)>>),
                    TableRow(FALSE, <<DataCell, DataCell>>)>>)>>)
    /\ out = <<"\n", "#", "{", "\n">> \o ResetFirstRowStyling
             \o <<"t", "a", "b", "l", "e", "(", "\n", " ", " ", "c", "o", "l", "u", "m", "n", "s", ":", " ", "2", ",", "\n", " ", " ", "a", "l", "i", "g", "n", ":", " ", "(", "a", "u", "t", "o", ",", " ", "l", "e", "f", "t", ",", ")", ",", "\n", " ", " ", "[", "d", "]", ",", "\n", " ", " ", "[", "d", "]", ",", "\n", ")", "\n", "}", "\n">>

(***************************************************************************)
(* theme/contrast.rs.  A color is a sequence of characters; luminance is   *)
(* kept in millionths and a ratio in thousandths, rounded down.            *)
(***************************************************************************)
\* The character U+00E9, two bytes long in UTF-8.
EAcute == "e-acute"

\* char::len_utf8
len_utf8(c) == IF c = EAcute THEN 2 ELSE 1

\* str::len(): the length in bytes.
RECURSIVE ByteLen(_)
ByteLen(s) == IF s = <<>> THEN 0 ELSE len_utf8(Head(s)) + ByteLen(Tail(s))

\* str::trim_start_matches('#')
RECURSIVE trim_start_matches_hash(_)
trim_start_matches_hash(s) ==
    IF StartsWith(s, "#") THEN trim_start_matches_hash(Tail(s)) ELSE s

\* str::is_char_boundary(at)
is_char_boundary(s, at) == \E n \in 0..Len(s) : ByteLen(SubSeq(s, 1, n)) = at

\* &s[from..to] for boundaries from and to: the characters between them.
Slice(s, from, to) ==
    LET a == CHOOSE n \in 0..Len(s) : ByteLen(SubSeq(s, 1, n)) = from
        b == CHOOSE n \in 0..Len(s) : ByteLen(SubSeq(s, 1, n)) = to
    IN SubSeq(s, a + 1, b)

HexDigits ==
    <<"0", "1", "2", "3", "4", "5", "6", "7", "8", "9", "a", "b", "c", "d", "e", "f">>
UpperHexDigits == <<"A", "B", "C", "D", "E", "F">>

IsHexDigit(c) == c \in Range(HexDigits) \cup Range(UpperHexDigits)

\* char::to_digit(16)
to_digit(c) ==
    IF c \in Range(HexDigits) THEN (CHOOSE i \in DOMAIN HexDigits : HexDigits[i] = c) - 1
    ELSE (CHOOSE i \in DOMAIN UpperHexDigits : UpperHexDigits[i] = c) + 9

RECURSIVE DigitsValue(_, _)
DigitsValue(s, acc) ==
    IF s = <<>> THEN acc ELSE DigitsValue(Tail(s), 16 * acc + to_digit(Head(s)))

\* u8::from_str_radix(s, 16).ok(): an optional '+', then hex digits only.
from_str_radix(s) ==
    LET digits == IF Len(s) > 1 /\ Head(s) = "+" THEN Tail(s) ELSE s IN
    IF digits # <<>> /\ (\A i \in DOMAIN digits : IsHexDigit(digits[i]))
       /\ DigitsValue(digits, 0) < 256
    THEN Some(DigitsValue(digits, 0))
    ELSE [some |-> FALSE, v |-> 0]

\* to_linear(c), in units of 1e-5, for c = 0..255.
to_linear ==
    <<
       0, 30, 61, 91, 121, 152, 182, 212, 243, 273, 304, 335,
       368, 402, 439, 478, 518, 561, 605, 651, 700, 750, 802, 857,
       913, 972, 1033, 1096, 1161, 1229, 1298, 1370, 1444, 1521, 1600, 1681,
       1764, 1850, 1938, 2029, 2122, 2217, 2315, 2416, 2519, 2624, 2732, 2843,
       2956, 3071, 3190, 3310, 3434, 3560, 3689, 3820, 3955, 4092, 4231, 4374,
       4519, 4667, 4817, 4971, 5127, 5286, 5448, 5613, 5781, 5951, 6125, 6301,
       6480, 6663, 6848, 7036, 7227, 7421, 7619, 7819, 8022, 8228, 8438, 8650,
       8866, 9084, 9306, 9531, 9759, 9990, 10224, 10462, 10702, 10946, 11193, 11444,
       11697, 11954, 12214, 12477, 12744, 13014, 13287, 13563, 13843, 14126, 14413, 14703,
       14996, 15293, 15593, 15896, 16203, 16513, 16827, 17144, 17465, 17789, 18116, 18447,
       18782, 19120, 19462, 19807, 20156, 20508, 20864, 21223, 21586, 21953, 22323, 22697,
       23074, 23455, 23840, 24228, 24620, 25016, 25415, 25818, 26225, 26636, 27050, 27468,
       27889, 28315, 28744, 29177, 29614, 30054, 30499, 30947, 31399, 31855, 32314, 32778,
       33245, 33716, 34191, 34670, 35153, 35640, 36131, 36625, 37124, 37626, 38133, 38643,
       39157, 39676, 40198, 40724, 41254, 41789, 42327, 42869, 43415, 43966, 44520, 45079,
       45641, 46208, 46778, 47353, 47932, 48515, 49102, 49693, 50289, 50888, 51492, 52100,
       52712, 53328, 53948, 54572, 55201, 55834, 56471, 57112, 57758, 58408, 59062, 59720,
       60383, 61050, 61721, 62396, 63076, 63760, 64448, 65141, 65837, 66539, 67244, 67954,
       68669, 69387, 70110, 70838, 71569, 72306, 73046, 73791, 74540, 75294, 76052, 76815,
       77582, 78354, 79130, 79910, 80695, 81485, 82279, 83077, 83880, 84687, 85499, 86316,
       87137, 87962, 88792, 89627, 90466, 91310, 92158, 93011, 93869, 94731, 95597, 96469,
       97345, 98225, 99110, 100000>>

NoLuminance == [kind |-> "None", v |-> 0]
Panic == [kind |-> "panic", v |-> 0]
SomeValue(v) == [kind |-> "Some", v |-> v]

\* relative_luminance: Some(luminance), None, or a panic when a slice
\* boundary falls inside a character.
relative_luminance(hex0) ==
    LET hex == trim_start_matches_hash(hex0) IN
    IF ByteLen(hex) # 6 THEN NoLuminance
    ELSE IF ~is_char_boundary(hex, 2) THEN Panic
    ELSE LET red == from_str_radix(Slice(hex, 0, 2)) IN
         IF ~red.some THEN NoLuminance
         ELSE IF ~is_char_boundary(hex, 4) THEN Panic
         ELSE LET green == from_str_radix(Slice(hex, 2, 4))
                  blue == from_str_radix(Slice(hex, 4, 6))
              IN IF ~green.some \/ ~blue.some THEN NoLuminance
                 ELSE SomeValue((2126 * to_linear[red.v + 1]
                                 + 7152 * to_linear[green.v + 1]
                                 + 722 * to_linear[blue.v + 1]) \div 1000)

\* contrast_ratio, in thousandths.
contrast_ratio(fg_hex, bg_hex) ==
    LET l1 == relative_luminance(fg_hex) IN
    IF l1.kind # "Some" THEN l1
    ELSE LET l2 == relative_luminance(bg_hex) IN
         IF l2.kind # "Some" THEN l2
         ELSE LET lighter == IF l1.v > l2.v THEN l1.v ELSE l2.v
                  darker == IF l1.v > l2.v THEN l2.v ELSE l1.v
              IN SomeValue((1000 * (lighter + 50000)) \div (darker + 50000))

ContrastRatio(element, ratio, minimum) ==
    [kind |-> "ContrastRatio", element |-> element, ratio |-> ratio,
     minimum |-> minimum]

\* `ratio < minimum`, the minimum given in tenths.
BelowMinimum_never(ratio, minimum) == FALSE

BelowMinimum(ratio, minimum) == ratio < 100 * minimum

\* check_contrast: <<warning>>, <<>> for no warning, or a panic.
check_contrast(element, fg_hex, bg_hex, minimum) ==
    LET ratio == contrast_ratio(fg_hex, bg_hex) IN
    IF ratio.kind = "panic" THEN Panic
    ELSE IF ratio.kind = "None" THEN SomeValue(<<>>)
    ELSE IF BelowMinimum(ratio.v, minimum)
    THEN SomeValue(<<ContrastRatio(element, ratio.v, minimum)>>)
    ELSE SomeValue(<<>>)

(***************************************************************************)
(* load_theme after resolve_inheritance: syntax fallback, contrast checks  *)
(***************************************************************************)
Dark == <<"d", "a", "r", "k">>
Light == <<"l", "i", "g", "h", "t">>

\* themes/_base-syntax-light.toml and _base-syntax-dark.toml: every syntax
\* token of the base palette has a color.
BaseSyntax(variant) ==
    [n \in SyntaxNames \cup {"background"} |->
        IF n = "background"
        THEN (IF variant = Dark THEN Hex("1") ELSE Hex("f"))
        ELSE [color |-> IF variant = Dark THEN Hex("e") ELSE Hex("2"),
              bold |-> None, italic |-> None]]

has_syntax_tokens(syntax) ==
    \/ syntax["keyword"].color # <<>>
    \/ syntax["string"].color # <<>>
    \/ syntax["function"].color # <<>>
    \/ syntax["comment"].color # <<>>

apply_syntax_fallback(tk) ==
    IF has_syntax_tokens(tk.syntax) THEN tk
    ELSE [tk EXCEPT !.syntax = BaseSyntax(IF tk.meta.variant = Dark THEN Dark ELSE Light)]

ApplySyntaxFallback ==
    /\ pc = "colors_resolved"
    /\ tokens' = apply_syntax_fallback(tokens)
    /\ pc' = "syntax_ready"
    /\ UNCHANGED <<source, builtin, chain, seen_names, result, warnings, pass>>
    /\ UNCHANGED emitVars
    /\ UNCHANGED renderVars

Check(element, fg, bg, minimum) ==
    [element |-> element, fg |-> fg, bg |-> bg, minimum |-> minimum]

\* `checks`: (element, foreground, background, minimum in tenths)
StructuralChecks(tk) ==
    <<Check("body text", tk.text.color, tk.page.background, 45),
      Check("headings", tk.headings.color, tk.page.background, 30),
      Check("links", tk.links.color, tk.page.background, 45),
      Check("blockquote text", tk.blockquote.text_color, tk.page.background, 45),
      Check("table header", tk.text.color, tk.table.header_background, 45),
      Check("caption text", tk.images.caption_color, tk.page.background, 45),
      Check("footnote numbers", tk.footnotes.number_color, tk.page.background, 45),
      Check("page numbers", tk.page_numbers.color, tk.page.background, 30)>>

SyntaxCheckFields ==
    <<"text", "keyword", "string", "number", "function", "type", "comment",
      "constant", "boolean", "operator", "property", "tag", "attribute",
      "variable", "builtin", "punctuation", "escape">>

SyntaxElements ==
    <<"syntax: text", "syntax: keyword", "syntax: string", "syntax: number",
      "syntax: function", "syntax: type", "syntax: comment", "syntax: constant",
      "syntax: boolean", "syntax: operator", "syntax: property", "syntax: tag",
      "syntax: attribute", "syntax: variable", "syntax: builtin",
      "syntax: punctuation", "syntax: escape">>

\* `syntax_checks`, each against the code block background at 4.5
SyntaxChecks(tk) ==
    [i \in DOMAIN SyntaxCheckFields |->
        Check(SyntaxElements[i], tk.syntax[SyntaxCheckFields[i]].color,
              tk.code_block.background, 45)]

\* The two loops of run_contrast_checks, from check i on.
RECURSIVE CheckLoop(_, _, _)
CheckLoop(checks, i, collector) ==
    IF i > Len(checks) THEN SomeValue(collector)
    ELSE IF checks[i].fg = <<>> \/ checks[i].bg = <<>>
    THEN CheckLoop(checks, i + 1, collector)
    ELSE LET w == check_contrast(checks[i].element, checks[i].fg, checks[i].bg,
                                 checks[i].minimum)
         IN IF w.kind = "panic" THEN [kind |-> "panic", v |-> collector]
            ELSE CheckLoop(checks, i + 1, collector \o w.v)

run_contrast_checks(tk, collector) ==
    CheckLoop(StructuralChecks(tk) \o SyntaxChecks(tk), 1, collector)

RunContrastChecks ==
    /\ pc = "syntax_ready"
    /\ LET checked == run_contrast_checks(tokens, warnings) IN
          /\ warnings' = checked.v
          /\ pc' = IF checked.kind = "panic" THEN "panicked" ELSE "contrast_checked"
    /\ UNCHANGED <<source, builtin, tokens, chain, seen_names, result, pass>>
    /\ UNCHANGED emitVars
    /\ UNCHANGED renderVars

\* Ok(ResolvedTheme { tokens, tmtheme_xml })
ResolvedTheme ==
    [kind |-> "ResolvedTheme", chain |-> <<>>, name |-> <<>>,
     suggestions |-> <<>>]

\* The tmTheme is generated and the resolved theme returned.
ReturnResolvedTheme ==
    /\ pc = "contrast_checked"
    /\ result' = ResolvedTheme
    /\ pc' = "loaded"
    /\ UNCHANGED <<source, builtin, tokens, chain, seen_names, warnings, pass>>
    /\ UNCHANGED emitVars
    /\ UNCHANGED renderVars

NextLoad ==
    ResolveAllColors \/ ApplySyntaxFallback \/ RunContrastChecks \/ ReturnResolvedTheme

\* -- merged themes handed to the rest of load_theme --
Grey7 == Hex("7")
Grey9 == Hex("9")
TooShort == <<"#", "1", "2">>
Signed == <<"#", "+", "f", "+", "f", "+", "f">>
Crooked == <<"a", EAcute, "x", "y", "z">>

\* A light theme every check of which passes.  Its palette names a color
\* "ink" and has a second key that is spelled like a literal color.
PlainTheme ==
    [DefaultTokens EXCEPT
        !.colors = [n \in {Ink, Grey7} |-> Grey9],
        !.page.background = Hex("f"), !.text.color = Hex("1"),
        !.headings.color = Hex("1"), !.links.color = Hex("1"),
        !.blockquote.text_color = Hex("1"), !.table.header_background = Hex("e"),
        !.images.caption_color = Hex("1"), !.footnotes.number_color = Hex("1"),
        !.page_numbers.color = Hex("1"), !.code_block.background = Hex("f")]

ColorFields ==
    {"text", "headings", "links", "blockquote", "images", "footnotes",
     "page_numbers", "page", "table", "code_block", "keyword", "syntax_text",
     "number"}

ColorValues == {<<>>, Grey7, Grey9, Ink, TooShort, Signed, Crooked}

SetColor(tk, field, c) ==
    CASE field = "text" -> [tk EXCEPT !.text.color = c]
      [] field = "headings" -> [tk EXCEPT !.headings.color = c]
      [] field = "links" -> [tk EXCEPT !.links.color = c]
      [] field = "blockquote" -> [tk EXCEPT !.blockquote.text_color = c]
      [] field = "images" -> [tk EXCEPT !.images.caption_color = c]
      [] field = "footnotes" -> [tk EXCEPT !.footnotes.number_color = c]
      [] field = "page_numbers" -> [tk EXCEPT !.page_numbers.color = c]
      [] field = "page" -> [tk EXCEPT !.page.background = c]
      [] field = "table" -> [tk EXCEPT !.table.header_background = c]
      [] field = "code_block" -> [tk EXCEPT !.code_block.background = c]
      [] field = "keyword" -> [tk EXCEPT !.syntax["keyword"].color = c]
      [] field = "syntax_text" -> [tk EXCEPT !.syntax["text"].color = c]
      [] field = "number" -> [tk EXCEPT !.syntax["number"].color = c]

InitLoad ==
    /\ pc = "resolved"
    /\ \E field \in ColorFields, c \in ColorValues, variant \in {Light, Dark},
          headings \in {Hex("1"), Grey9}, links \in {Hex("1"), Grey7} :
          tokens = SetColor([PlainTheme EXCEPT !.meta.variant = variant,
                                               !.headings.color = headings,
                                               !.links.color = links],
                            field, c)
    /\ builtin = <<>>
    /\ chain = <<>>
    /\ seen_names = {}
    /\ source = NoSource
    /\ result = Ok
    /\ warnings = <<>>
    /\ pass = 0
    /\ EmitIdle
    /\ RenderIdle

SpecLoad == InitLoad /\ [][NextLoad]_vars

(***************************************************************************)
(* C10  The contrast check never blocks.                                    *)
(***************************************************************************)
\* '#' and six hexadecimal digits.
WellFormed(c) ==
    /\ Len(c) = 7
    /\ c[1] = "#"
    /\ \A i \in 2..7 : IsHexDigit(c[i])

WarningsFor(element) == {i \in DOMAIN warnings : warnings[i].element = element}

NonAscii(c) == EAcute \in Range(c)

AllChecks(tk) == StructuralChecks(tk) \o SyntaxChecks(tk)

MalformedChecks(tk) ==
    {i \in DOMAIN AllChecks(tk) :
        LET c == AllChecks(tk)[i] IN
        /\ c.fg # <<>> /\ c.bg # <<>>
        /\ (~WellFormed(c.fg) \/ ~WellFormed(c.bg))}

\* C11: a checked pair with a color that is not a parseable literal (wrong
\* length, a character that is not a hexadecimal digit, an unresolved name,
\* a string with multi-byte characters) is skipped: it leaves no warning,
\* raises no error, and the load of the theme is never cut short.
C11_MalformedSkipped ==
    /\ pc # "panicked"
    /\ result.kind \in {"Ok", "ResolvedTheme"}
    /\ pc = "loaded" =>
         \A i \in MalformedChecks(tokens) :
            WarningsFor(AllChecks(tokens)[i].element) = {}

\* The footnote number color is a 6-byte string whose second character is
\* two bytes long: the checks stop there and nothing is returned.
C11_Witness ==
    /\ pc = "panicked"
    /\ tokens.footnotes.number_color = Crooked
    /\ result # ResolvedTheme

(***************************************************************************)
(* load_toml_source over the built-in catalog                              *)
(***************************************************************************)
\* load_toml_source: a built-in name is looked up in the catalog; an
\* inline theme is its own source.
LoadTomlSource ==
    /\ pc = "load_toml_source"
    /\ IF source.kind = "BuiltIn" /\ source.name \notin DOMAIN builtin
       THEN /\ result' = ThemeNotFound(source.name,
                                       find_suggestions(source.name,
                                                        list_themes))
            /\ pc' = "failed"
       ELSE /\ pc' = "parse_theme_toml"
            /\ UNCHANGED result
    /\ UNCHANGED <<source, builtin, tokens, chain, seen_names, warnings, pass>>
    /\ UNCHANGED emitVars
    /\ UNCHANGED renderVars

\* The catalog with the names of list_themes.
NamedCatalog ==
    [n \in Range(list_themes) |->
        [valid |-> TRUE, tokens |-> [DefaultTokens EXCEPT !.meta.name = n]]]

\* The largest number of characters a requested name differs from a
\* catalog name by.
MaxEdits == 4

Replaced(n, k) ==
    [i \in 1..Len(n) |-> IF i <= Min(k, Len(n)) THEN "q" ELSE n[i]]

Dropped(n, k) == SubSeq(n, Min(k, Len(n)) + 1, Len(n))

to_uppercase(s) ==
    [i \in 1..Len(s) |->
        IF \E k \in 1..26 : LowerCase[k] = s[i]
        THEN UpperCase[CHOOSE k \in 1..26 : LowerCase[k] = s[i]]
        ELSE s[i]]

SilkLite == <<"s", "i", "l", "k", "-", "l", "i", "t", "e">>

RequestedNames ==
    LET names == Range(list_themes)
        edited == {Replaced(n, k) : n \in names, k \in 0..MaxEdits}
                  \cup {Dropped(n, k) : n \in names, k \in 1..MaxEdits}
                  \cup {SilkLite}
    IN edited \cup {to_uppercase(n) : n \in names \cup {SilkLite}}

InitSuggest ==
    /\ pc = "load_toml_source"
    /\ source \in {BuiltIn(n) : n \in RequestedNames} \cup {Inline}
    /\ builtin = NamedCatalog
    /\ tokens = DefaultTokens
    /\ chain = <<>>
    /\ seen_names = {}
    /\ result = Pending
    /\ warnings = <<>>
    /\ pass = 0
    /\ EmitIdle
    /\ RenderIdle

SpecSuggest == InitSuggest /\ [][LoadTomlSource]_vars

(***************************************************************************)
(* C12  The suggestions of ThemeNotFound.                                   *)
(***************************************************************************)
\* a can be turned into b with at most k insertions, deletions and
\* replacements of one character.
RECURSIVE Within(_, _, _)
Within(a, b, k) ==
    IF a = <<>> THEN Len(b) <= k
    ELSE IF b = <<>> THEN Len(a) <= k
    ELSE IF Head(a) = Head(b) THEN Within(Tail(a), Tail(b), k)
    ELSE /\ k > 0
         /\ \/ Within(Tail(a), Tail(b), k - 1)
            \/ Within(Tail(a), b, k - 1)
            \/ Within(a, Tail(b), k - 1)

\* The suggestion string holds name t between its ", " separators.
Suggests(suggestions, t) ==
    contains(CommaSpace \o suggestions \o CommaSpace,
             CommaSpace \o t \o CommaSpace)

Suggested == {t \in Range(list_themes) : Suggests(result.suggestions, t)}

CloseNames(name) ==
    {t \in Range(list_themes) :
        Within(to_lowercase(name), to_lowercase(t), 3)}

\* Catalog names that hold the requested name or are held by it, whatever
\* the case of the letters.
OverlappingNames(name) ==
    {t \in Range(list_themes) :
        \/ contains(to_lowercase(t), to_lowercase(name))
        \/ contains(to_lowercase(name), to_lowercase(t))}

\* C12: a request for a built-in name that is not in the catalog ends in
\* ThemeNotFound for that name; its suggestions hold every catalog name
\* within three edits of the requested name, letters compared without
\* their case; the suggestions are never empty, and they are the first
\* five catalog names when no catalog name is near the requested one.
C12_Suggestions ==
    (/\ pc # "load_toml_source"
     /\ source.kind = "BuiltIn"
     /\ source.name \notin Range(list_themes))
    => /\ pc = "failed"
       /\ result.kind = "ThemeNotFound"
       /\ result.name = source.name
       /\ CloseNames(source.name) \subseteq Suggested
       /\ result.suggestions # <<>>
       /\ CloseNames(source.name) \cup OverlappingNames(source.name) = {}
          => result.suggestions
               = Join(SubSeq(list_themes, 1, 5), CommaSpace)

C12_Witness ==
    /\ pc = "failed"
    /\ source = BuiltIn(SilkLite)
    /\ <<"s", "i", "l", "k", "-", "l", "i", "g", "h", "t">> \in Suggested
    /\ ~contains(<<"s", "i", "l", "k", "-", "l", "i", "g", "h", "t">>, SilkLite)

(***************************************************************************)
(* C13  The syntax fallback.                                                *)
(***************************************************************************)
\* Some syntax-highlight token has a color.
AnySyntaxColor(syntax) == \E n \in SyntaxNames : syntax[n].color # <<>>

\* C13: the step that applies the syntax fallback replaces the syntax
\* section by the base palette exactly when no syntax token of the merged
\* theme has a color, and leaves the section alone when any token (keyword,
\* string, number, type, operator, ...) has one; the base is the dark one
\* when the variant is "dark" and the light one otherwise.
C13_FallbackExactly ==
    [][pc = "colors_resolved"
       => tokens'.syntax =
            IF AnySyntaxColor(tokens.syntax) THEN tokens.syntax
            ELSE IF tokens.meta.variant = Dark THEN BaseSyntax(Dark)
            ELSE BaseSyntax(Light)]_vars

C13_Witness ==
    /\ pc = "colors_resolved"
    /\ tokens.syntax["number"].color = Grey7
    /\ AnySyntaxColor(tokens.syntax)
    /\ apply_syntax_fallback(tokens).syntax = BaseSyntax(Light)

(***************************************************************************)
(* C14  The color fields after resolution.                                  *)
(***************************************************************************)
\* The color-bearing fields of a token tree, in a fixed order.
ColorsOf(tk) ==
    <<tk.page.background, tk.text.color, tk.headings.color,
      tk.code_block.background, tk.blockquote.text_color,
      tk.table.header_background, tk.links.color, tk.images.caption_color,
      tk.footnotes.number_color, tk.page_numbers.color, tk.syntax["background"]>>
    \o [i \in DOMAIN SyntaxCheckFields |-> tk.syntax[SyntaxCheckFields[i]].color]

\* C14: the step that resolves the colors leaves a color field that is
\* empty or starts with '#' as it is, replaces any other value by the
\* resolved palette's entry of that name when there is one and leaves it as
\* it is when there is none; the step always completes without an error.
C14_FieldResolution ==
    [][pc = "resolved"
       => /\ pc' = "colors_resolved"
          /\ result' = result
          /\ \A i \in DOMAIN ColorsOf(tokens) :
                LET old == ColorsOf(tokens)[i]
                    new == ColorsOf(tokens')[i]
                IN IF old = <<>> \/ old[1] = "#" THEN new = old
                   ELSE IF old \in DOMAIN tokens'.colors
                   THEN new = tokens'.colors[old]
                   ELSE new = old]_vars

C14_Witness ==
    /\ pc = "resolved"
    /\ tokens.syntax["number"].color = Ink
    /\ tokens.links.color = Grey7
    /\ Grey7 \in DOMAIN tokens.colors
    /\ resolve_token_colors(tokens).syntax["number"].color = Grey9
    /\ resolve_token_colors(tokens).links.color = Grey7

(***************************************************************************)
(* C15  An explicit value of the child, false included, wins.               *)
(***************************************************************************)
\* C15: after the merge, an optional boolean leaf (a heading level's
\* border, a syntax token's bold or italic) that the child theme wrote
\* explicitly, as true or as false, has the child's value, whatever the
\* parent's value is.
C15_ExplicitValueWins ==
    pc = "resolved"
    => \A p \in LeafPaths(ThemeTokens) :
          (KindAt(p) = "OptBoolean" /\ At(chain[1], p) # None)
          => At(tokens, p) = At(chain[1], p)

C15_Witness ==
    /\ pc = "resolved"
    /\ chain[1].headings.h1.border = Some(FALSE)
    /\ chain[2].headings.h1.border = Some(TRUE)
    /\ tokens.headings.h1.border = Some(TRUE)

(***************************************************************************)
(* C16  Rendering the same tree again.                                      *)
(***************************************************************************)
\* render_to_typst is called again on the same input: the collector is a
\* new one, emit_typst builds its contexts anew; the variables out,
\* footnotes and mermaid_sources still hold what the render before left.
RenderAgain ==
    /\ pc = "emitted"
    /\ pc' = "emit_typst"
    /\ warnings' = <<>>
    /\ UNCHANGED <<root, footnotes, out, mermaid_sources>>
    /\ UNCHANGED themeVars
    /\ UNCHANGED renderVars

NextRender == CollectFootnotes \/ EmitRoot \/ RenderAgain

SpecRender == InitEmit /\ [][NextRender]_vars

RECURSIVE MermaidBlocksFrom(_, _)
MermaidBlocksFrom(nodes, i) ==
    IF i > Len(nodes) THEN <<>>
    ELSE (IF nodes[i].kind = "CodeBlock" /\ FirstToken(nodes[i].info) = Mermaid
          THEN <<nodes[i].literal>> ELSE <<>>)
         \o MermaidBlocksFrom(nodes, i + 1)

MermaidBlocks(doc) == MermaidBlocksFrom(descendants(doc), 1)

ImagePrefix == <<"#", "i", "m", "a", "g", "e", "(", "\"">> \o MERMAID_VPATH_PREFIX

\* The indices of the image references in a text (fewer than ten diagrams).
ReferencedIndices(text) ==
    {k \in 0..9 :
        \E i \in 1..Len(text) :
            /\ i + Len(ImagePrefix) <= Len(text)
            /\ SubSeq(text, i, i + Len(ImagePrefix) - 1) = ImagePrefix
            /\ <<text[i + Len(ImagePrefix)]>> = Decimal(k)}

\* C17: when emit_typst has returned, the k-th mermaid block of the
\* document (k from 0) has its source at element k of the returned list,
\* and every image reference in the text, those of inlined footnote bodies
\* included, names an index of the returned list.
C17_DiagramIndices ==
    pc = "emitted"
    => /\ mermaid_sources = MermaidBlocks(root)
       /\ \A k \in ReferencedIndices(out) : k < Len(mermaid_sources)

C17_Witness ==
    /\ pc = "emitted"
    /\ root = Document(<<ReferenceParagraph(<<"1">>),
                         FootnoteDefinition(<<"1">>,
                             <<Paragraph(<<Text(<<"x">>)>>),
                               CodeBlock(Mermaid, <<"f">>)>>)>>)
    /\ mermaid_sources = <<>>
    /\ ReferencedIndices(out) = {0}

(***************************************************************************)
(* C18  Accumulation of inline HTML.                                        *)
(***************************************************************************)
Opens(n) == n.kind = "HtmlInline" /\ is_opening_html_tag(n.literal)

Closes(n) == n.kind = "HtmlInline" /\ is_closing_html_tag(n.literal)

\* The depth of the fragment opened at sibling i, after sibling j.
DepthAfter(cs, i, j) ==
    Cardinality({k \in i..j : Opens(cs[k])})
    - Cardinality({k \in (i + 1)..j : Closes(cs[k])})

\* The last sibling of the fragment opened at sibling i: the one before
\* the first sibling that is neither HTML nor text, the closing tag that
\* brings the depth to 0, or the last sibling, whichever comes first.
FragmentEnd(cs, i) ==
    LET stops == {j \in (i + 1)..Len(cs) :
                     \/ cs[j].kind \notin {"HtmlInline", "Text"}
                     \/ DepthAfter(cs, i, j) = 0}
        first == CHOOSE j \in stops : \A k \in stops : j <= k
    IN IF stops = {} THEN Len(cs)
       ELSE IF cs[first].kind \notin {"HtmlInline", "Text"} THEN first - 1
       ELSE first

\* The siblings from i on: a fragment goes to the HTML sub-converter as
\* one string, any other sibling is emitted by itself.
RECURSIVE InlineRendering(_, _)
InlineRendering(cs, i) ==
    IF i > Len(cs) THEN <<>>
    ELSE IF Opens(cs[i])
    THEN LET last == FragmentEnd(cs, i)
             fragment == Concat([k \in 1..(last - i + 1) |-> cs[i + k - 1].literal])
         IN emit_html_inline(fragment, <<>>).typst \o InlineRendering(cs, last + 1)
    ELSE emit_node(cs[i], EmitContext(NoFootnotes, <<>>)).out
         \o InlineRendering(cs, i + 1)

HasInlineHtml(doc) ==
    /\ Len(doc.children) = 1
    /\ doc.children[1].kind = "Paragraph"
    /\ \E n \in Range(doc.children[1].children) : Opens(n)

\* C18: in the text of a paragraph, the siblings from an opening inline
\* HTML tag up to the closing tag that balances it (or up to the first
\* sibling that is neither HTML nor text, or the last sibling) are
\* converted as one fragment, and the siblings after it are emitted as
\* usual.
C18_Accumulation ==
    (pc = "emitted" /\ HasInlineHtml(root))
    => out = <<"\n">> \o InlineRendering(root.children[1].children, 1) \o <<"\n">>

C18_Witness ==
    /\ pc = "emitted"
    /\ HasInlineHtml(root)
    /\ LET cs == root.children[1].children
       IN /\ Len(cs) = 7
          /\ FragmentEnd(cs, 1) = 6
          /\ DepthAfter(cs, 1, 4) = 1
    /\ out = <<"\n", "#", "s", "u", "p", "e", "r", "[", "_", "x", "_", "y", "]", "z", "\\", "#", "\n">>

(***************************************************************************)
(* C19  A reference to a footnote that is not defined.                      *)
(***************************************************************************)
\* A top-level block of a footnote document in the main pass, given the
\* map of the first pass: a definition emits nothing, a reference is a
\* footnote when the map has its name and a superscript label when not.
ReferenceRendering(map, b) ==
    IF b.kind = "FootnoteDefinition" THEN <<>>
    ELSE LET name == b.children[2].name IN
         IF name \in DOMAIN map
         THEN <<"\n", "a", "#", "f", "o", "o", "t", "n", "o", "t", "e", "[">> \o trim(map[name]) \o <<"]", "b", "\n">>
         ELSE <<"\n", "a", "#", "s", "u", "p", "e", "r", "[">> \o name \o <<"]", "b", "\n">>

\* One warning for each reference the map has no name for, in the order of
\* the document.
RECURSIVE UnresolvedWarnings(_, _, _)
UnresolvedWarnings(map, blocks, i) ==
    IF i > Len(blocks) THEN <<>>
    ELSE (IF blocks[i].kind = "Paragraph"
             /\ blocks[i].children[2].name \notin DOMAIN map
          THEN <<[kind |-> "FootnoteNotFound", name |-> blocks[i].children[2].name]>>
          ELSE <<>>)
         \o UnresolvedWarnings(map, blocks, i + 1)

\* C19: in the main pass over a document of references and definitions,
\* a reference whose name is not in the map of the first pass becomes
\* #super[name] and adds one FootnoteNotFound warning with that name to the
\* warnings collected so far; the blocks after it are emitted and the pass
\* ends normally.
C19_UnresolvedReference ==
    [][(pc = "emit_node" /\ root \in FootnoteDocs)
       => /\ pc' = "emitted"
          /\ out' = Concat([i \in 1..Len(root.children) |->
                              ReferenceRendering(footnotes, root.children[i])])
          /\ warnings' = warnings
                         \o UnresolvedWarnings(footnotes, root.children, 1)]_vars

C19_Witness ==
    /\ pc = "emitted"
    /\ root = Document(<<ReferenceParagraph(<<"1">>), ReferenceParagraph(<<"n">>),
                         FootnoteDefinition(<<"n">>, <<Paragraph(<<Text(<<"x">>)>>)>>)>>)
    /\ warnings = <<FootnoteNotFound(<<"1">>)>>
    /\ out = <<"\n", "a", "#", "s", "u", "p", "e", "r", "[", "1", "]", "b", "\n", "\n", "a", "#", "f", "o", "o", "t", "n", "o", "t", "e", "[", "x", "]", "b", "\n">>

(***************************************************************************)
(* C20  HTML elements the sub-converter does not know.                      *)
(***************************************************************************)
\* The tags of the model's inputs that the sub-converter handles.
HandledTags == {<<"b">>, <<"s", "t", "r", "o", "n", "g">>, <<"i">>, <<"e", "m">>, <<"s", "u", "b">>, <<"s", "u", "p">>, <<"b", "r">>, <<"s", "p", "a", "n">>}

\* The name in a tag such as <q>, </q> or <q/>.
TagName(tag) ==
    LET inner == SubSeq(tag, 2, Len(tag) - 1)
        opened == IF StartsWith(inner, "/") THEN Tail(inner) ELSE inner
    IN IF opened # <<>> /\ opened[Len(opened)] = "/"
       THEN SubSeq(opened, 1, Len(opened) - 1) ELSE opened

\* The tags of a fragment, in order, and the fragment without the tags of
\* the elements that are not handled.
RECURSIVE TagsOf(_)
TagsOf(s) ==
    IF s = <<>> THEN <<>>
    ELSE IF Head(s) = "<" /\ \E e \in 2..Len(s) : s[e] = ">"
    THEN LET e == CHOOSE e \in 2..Len(s) :
                     s[e] = ">" /\ \A f \in 2..(e - 1) : s[f] # ">"
         IN <<SubSeq(s, 1, e)>> \o TagsOf(SubSeq(s, e + 1, Len(s)))
    ELSE TagsOf(Tail(s))

RECURSIVE Unwrapped(_)
Unwrapped(s) ==
    IF s = <<>> THEN <<>>
    ELSE IF Head(s) = "<" /\ \E e \in 2..Len(s) : s[e] = ">"
    THEN LET e == CHOOSE e \in 2..Len(s) :
                     s[e] = ">" /\ \A f \in 2..(e - 1) : s[f] # ">"
             tag == SubSeq(s, 1, e)
         IN (IF TagName(tag) \in HandledTags THEN tag ELSE <<>>)
            \o Unwrapped(SubSeq(s, e + 1, Len(s)))
    ELSE <<Head(s)>> \o Unwrapped(Tail(s))

\* One warning for each opening tag of an element that is not handled.
UnsupportedIn(s) ==
    LET tags == TagsOf(s)
    IN Concat([i \in 1..Len(tags) |->
                 IF tags[i][2] # "/" /\ TagName(tags[i]) \notin HandledTags
                 THEN <<[kind |-> "UnsupportedHtmlTag", name |-> TagName(tags[i])]>>
                 ELSE <<>>])

\* The fragment that starts at sibling i.
FragmentAt(cs, i) ==
    Concat([k \in 1..(FragmentEnd(cs, i) - i + 1) |-> cs[i + k - 1].literal])

\* The siblings from i on, each fragment converted without the tags of
\* its unhandled elements; and the warnings of those elements.
RECURSIVE UnwrappedRendering(_, _)
UnwrappedRendering(cs, i) ==
    IF i > Len(cs) THEN <<>>
    ELSE IF Opens(cs[i])
    THEN emit_html_inline(Unwrapped(FragmentAt(cs, i)), <<>>).typst
         \o UnwrappedRendering(cs, FragmentEnd(cs, i) + 1)
    ELSE emit_node(cs[i], EmitContext(NoFootnotes, <<>>)).out
         \o UnwrappedRendering(cs, i + 1)

RECURSIVE UnsupportedWarnings(_, _)
UnsupportedWarnings(cs, i) ==
    IF i > Len(cs) THEN <<>>
    ELSE IF Opens(cs[i])
    THEN UnsupportedIn(FragmentAt(cs, i))
         \o UnsupportedWarnings(cs, FragmentEnd(cs, i) + 1)
    ELSE emit_node(cs[i], EmitContext(NoFootnotes, <<>>)).warnings
         \o UnsupportedWarnings(cs, i + 1)

UnrecognizedFrontMatter(field) ==
    [kind |-> "UnrecognizedFrontMatter", name |-> field]

\* Path::file_name: the last component, trailing separators ignored; none
\* (the empty sequence here) for an empty path and for "..".
RECURSIVE trim_separators(_)
trim_separators(path) ==
    IF path # <<>> /\ path[Len(path)] = "/"
    THEN trim_separators(SubSeq(path, 1, Len(path) - 1))
    ELSE path

LastIndexOf(s, c) ==
    IF c \notin Range(s) THEN 0
    ELSE CHOOSE i \in DOMAIN s : s[i] = c /\ \A j \in DOMAIN s : j > i => s[j] # c

file_name(path) ==
    LET p == trim_separators(path)
        name == SubSeq(p, LastIndexOf(p, "/") + 1, Len(p))
    IN  IF name = <<".", ".">> THEN <<>> ELSE name

\* Path::extension: what follows the last dot of the file name; none when
\* there is no file name, no dot, or nothing before the last dot.
extension(path) ==
    LET name == file_name(path)
        dot == LastIndexOf(name, ".")
    IN  IF dot <= 1 THEN NoneString
        ELSE Some(SubSeq(name, dot + 1, Len(name)))

\* A choice in which the front matter wins over the command line.
resolve_effective_theme_front_matter_first(opts, fm) ==
    IF fm.some /\ fm.theme.some
    THEN IF extension(fm.theme.v) = Some(<<"t", "o", "m", "l">>)
         THEN Custom(fm.theme.v)
         ELSE BuiltIn(fm.theme.v)
    ELSE opts.theme

resolve_effective_theme(opts, fm) ==
    IF opts.theme_explicit THEN opts.theme
    ELSE IF fm.some /\ fm.theme.some
    THEN IF extension(fm.theme.v) = Some(<<"t", "o", "m", "l">>)
         THEN Custom(fm.theme.v)
         ELSE BuiltIn(fm.theme.v)
    ELSE opts.theme

\* warn_unknown_fields: one warning per key of extras, in the order the
\* HashMap's iterator yields them, which the program does not fix.
WarnUnknownFields ==
    /\ pc = "warn_unknown_fields"
    /\ \E order \in Orders(front_matter.extras) :
           warnings' = warnings \o [i \in DOMAIN order |->
                                       UnrecognizedFrontMatter(order[i])]
    /\ pc' = "resolve_effective_theme"
    /\ UNCHANGED <<source, builtin, tokens, chain, seen_names, result, pass>>
    /\ UNCHANGED emitVars
    /\ UNCHANGED renderVars

ResolveEffectiveTheme ==
    /\ pc = "resolve_effective_theme"
    /\ source' = resolve_effective_theme(options, front_matter)
    /\ pc' = "load_toml_source"
    /\ UNCHANGED <<builtin, tokens, chain, seen_names, result, pass, warnings>>
    /\ UNCHANGED emitVars
    /\ UNCHANGED renderVars

\* Inputs: the theme the command line or the library caller gave, the theme
\* the front matter names, the unrecognized front matter fields.
OptionThemes ==
    {DefaultRenderOptions.theme, BuiltIn(<<"n", "o", "r", "d">>), Custom(<<"c", "l", "i", ".", "t", "o", "m", "l">>)}

FrontMatterThemes ==
    {<<"n", "o", "r", "d">>, <<"m", "y", ".", "t", "o", "m", "l">>, <<".", "t", "o", "m", "l">>, <<"a", ".", "T", "O", "M", "L">>, <<"d", "/", "m", "y", ".", "t", "o", "m", "l">>, <<"m", "y", ".", "t", "o", "m", "l", "/">>,
     <<"x", ".", "t", "o", "m", "l", "/", "y">>, <<>>, <<"a", ".", "t", "o", "m", "l", ".", "b", "a", "k">>, <<"a", ".", "b", ".", "t", "o", "m", "l">>, <<"t", "o", "m", "l">>, <<"d", "/", ".", "t", "o", "m", "l">>,
     <<"a", ".">>, <<".", ".">>}

MaxExtras == 2
ExtraFields == {<<"d", "r", "a", "f", "t">>, <<"t", "a", "g", "s">>, <<"x">>}

FrontMatters ==
    {NoFrontMatter}
        \cup {FrontMatter(t, e) :
                 t \in {NoneString} \cup {Some(n) : n \in FrontMatterThemes},
                 e \in {x \in SUBSET ExtraFields : Cardinality(x) <= MaxExtras}}

InitOptions ==
    /\ pc = "warn_unknown_fields"
    /\ options \in {RenderOptions(t, e) : t \in OptionThemes, e \in BOOLEAN}
    /\ front_matter \in FrontMatters
    /\ returned = NoneString
    /\ warnings = <<>>
    /\ ThemeIdle
    /\ EmitIdle

NextOptions == WarnUnknownFields \/ ResolveEffectiveTheme

SpecOptions == InitOptions /\ [][NextOptions]_vars

\* The front matter names a path whose last component, trailing separators
\* aside, is a non-empty stem followed by ".toml".
EndsInToml(t) ==
    \E n \in 0..Len(t) :
        /\ n >= 6
        /\ \A i \in (n + 1)..Len(t) : t[i] = "/"
        /\ SubSeq(t, n - 4, n) = <<".", "t", "o", "m", "l">>
        /\ t[n - 5] # "/"

Setters(ch, p) == {i \in 1..Len(ch) : ~IsUnset(At(ch[i], p), KindAt(p))}

ColorSetters(ch, n) ==
    {i \in 1..Len(ch) : n \in DOMAIN ch[i].colors /\ ch[i].colors[n] # <<>>}

Least(S) == CHOOSE i \in S : \A j \in S : i <= j

\* merge(...merge(merge(Tn, Tn-1), Tn-2)..., T1), the root Tn being the
\* last theme of the chain.
RECURSIVE PairwiseFromRoot(_)
PairwiseFromRoot(ch) ==
    IF Len(ch) = 1 THEN ch[1]
    ELSE merge_tokens(PairwiseFromRoot(Tail(ch)), Head(ch))

\* C22: after a successful resolve_inheritance over a chain of at most
\* five themes, every leaf of the merged theme has the value of the
\* most-derived theme that sets it to a non-sentinel value and is unset when
\* no theme sets it, and the merged theme equals the pairwise merges made
\* from the root upward.
C22_MostDerivedWins ==
    (pc = "resolved" /\ chain # <<>>) =>
        /\ Len(chain) <= 5
        /\ \A p \in LeafPaths(ThemeTokens) \ {<<"colors">>} :
              IF Setters(chain, p) = {}
              THEN IsUnset(At(tokens, p), KindAt(p))
              ELSE At(tokens, p) = At(chain[Least(Setters(chain, p))], p)
        /\ \A n \in UNION {DOMAIN chain[i].colors : i \in 1..Len(chain)} :
              IF ColorSetters(chain, n) = {}
              THEN n \in DOMAIN tokens.colors => tokens.colors[n] = <<>>
              ELSE /\ n \in DOMAIN tokens.colors
                   /\ tokens.colors[n] = chain[Least(ColorSetters(chain, n))].colors[n]
        /\ tokens = PairwiseFromRoot(chain)

\* An unnamed-color child over four ancestors: the text color comes from the
\* nearest ancestor that has one although a farther one has another.
C22_Witness ==
    /\ pc = "resolved" /\ Len(chain) = 5
    /\ chain[1].text.color = <<>>
    /\ chain[2].text.color = Hex("1")
    /\ chain[4].text.color = Hex("3")
    /\ tokens.text.color = Hex("1")
    /\ tokens.links.color = Hex("9")
    /\ tokens.headings.color = Hex("1")
(***************************************************************************)
(* C23  the walk of an inheritance chain ends.                             *)
(***************************************************************************)
\* The parents load_toml_source was asked for so far: the ones pushed on the
\* chain and the one whose load or parse failed.
ParentsLoaded ==
    IF chain = <<>> THEN 0
    ELSE (Len(chain) - 1)
             + (IF result.kind \in {"ThemeNotFound", "ThemeInvalid"} THEN 1 ELSE 0)

\* What is left of the call: the entry, the loop with the themes it may
\* still push, the fold, the return.
WalkRank ==
    CASE pc = "resolve_inheritance" -> MAX_INHERITANCE_DEPTH + 3
      [] pc = "chain_loop" -> MAX_INHERITANCE_DEPTH - Len(chain) + 2
      [] pc = "fold" -> 1
      [] OTHER -> 0

\* The call has a next step to take: it stands at the entry, or in the loop
\* or at the fold with a chain to look at.
StepPossible ==
    \/ pc = "resolve_inheritance"
    \/ pc \in {"chain_loop", "fold"} /\ chain # <<>>

\* C23: over every catalog, cyclic ones and rows longer than the cap
\* included, resolve_inheritance returns, with Ok, ThemeCycle,
\* ThemeInheritanceDepth, ThemeNotFound or ThemeInvalid, and at no time has
\* it loaded more than four parent themes.  It returns because every step
\* lowers WalkRank, which is never negative, and a step is possible as long
\* as the call has not returned.
C23_WalkTerminates ==
    /\ [](ParentsLoaded <= 4)
    /\ [](Finished => result.kind \in {"Ok", "ThemeCycle", "ThemeInheritanceDepth",
                                       "ThemeNotFound", "ThemeInvalid"})
    /\ [](WalkRank >= 0 /\ (Finished <=> WalkRank = 0))
    /\ [](~Finished => StepPossible)
    /\ [][WalkRank' < WalkRank]_vars

\* A loop of six themes: the walk stopped at the cap with four parents loaded.
C23_Witness ==
    /\ pc = "failed"
    /\ HasRepeat
    /\ FirstRepeat = 7
    /\ ParentsLoaded = 4
    /\ result.kind = "ThemeInheritanceDepth"

(***************************************************************************)
(* C24  resolve_color_table ends.                                          *)
(***************************************************************************)
\* One substitution pass, stated entry by entry: an entry that names an
\* entry of the table takes that entry's value, every other entry stays.
Substituted(colors) ==
    [k \in DOMAIN colors |->
        IF colors[k] # <<>> /\ colors[k][1] # "#" /\ colors[k] \in DOMAIN colors
        THEN colors[colors[k]]
        ELSE colors[k]]

RECURSIVE AfterPasses(_, _)
AfterPasses(colors, n) ==
    IF n = 0 THEN colors ELSE Substituted(AfterPasses(colors, n - 1))

\* C24: for every palette, alias cycles and self-references included,
\* resolve_color_table runs at least one and at most ten passes, every pass
\* before the last changes an entry, the last pass changes none unless it is
\* the tenth, and the palette returned is the input after those passes, with
\* the keys of the input.
C24_PaletteTerminates ==
    [][pc = "resolved" =>
          /\ pass' \in 1..10
          /\ \A j \in 1..(pass' - 1) :
                AfterPasses(tokens.colors, j) # AfterPasses(tokens.colors, j - 1)
          /\ pass' < 10 =>
                AfterPasses(tokens.colors, pass') = AfterPasses(tokens.colors, pass' - 1)
          /\ tokens'.colors = AfterPasses(tokens.colors, pass')
          /\ DOMAIN tokens'.colors = DOMAIN tokens.colors]_vars

\* A cycle of three aliases: ten passes were run and the entries are names
\* still.
C24_Witness ==
    /\ pc = "colors_resolved"
    /\ pass = 10
    /\ Cardinality(DOMAIN tokens.colors) = 3
    /\ \A k \in DOMAIN tokens.colors :
          tokens.colors[k] \in DOMAIN tokens.colors /\ tokens.colors[k] # k
(***************************************************************************)
(* C25  A footnote reference inside the body of a footnote definition.      *)
(***************************************************************************)
\* The definitions of doc whose body is the paragraph "z[^m]" for a name m
\* that doc defines with a plain body.
NestedDefinitions(doc) ==
    {def \in Range(doc.children) :
        /\ def.kind = "FootnoteDefinition"
        /\ \E m \in FootnoteNames :
              /\ def.children = NestedBody(m)
              /\ \E inner \in DefinitionsOf(doc, m) : inner.children \in PlainBodies}

InnerDefinition(doc, def) ==
    CHOOSE inner \in DefinitionsOf(doc, def.children[1].children[2].name) : TRUE

\* C25: after the first pass, the rendered body of a definition that
\* references another footnote holds #footnote[...] with the rendered body
\* of the referenced definition, whenever the document defines that name,
\* before or after the enclosing definition.
C25_NestedReference ==
    (pc = "emit_node" /\ root \in FootnoteDocs) =>
        \A def \in NestedDefinitions(root) :
            /\ def.name \in DOMAIN footnotes
            /\ footnotes[def.name] =
                  <<"\n", "z", "#", "f", "o", "o", "t", "n", "o", "t", "e", "[">> \o PlainRendering(InnerDefinition(root, def).children)
                                   \o <<"]", "\n">>

\* The referenced definition stands before the enclosing one: its body is
\* inlined.
C25_Witness ==
    /\ pc = "emit_node"
    /\ root = Document(<<FootnoteDefinition(<<"n">>, <<Paragraph(<<Text(<<"x">>)>>)>>),
                         FootnoteDefinition(<<"1">>, NestedBody(<<"n">>))>>)
    /\ footnotes[<<"1">>] = <<"\n", "z", "#", "f", "o", "o", "t", "n", "o", "t", "e", "[", "x", "]", "\n">>
(***************************************************************************)
(* render_to_typst as a whole: front matter warnings, load_theme,          *)
(* check_content, emit_typst, the returned warning list                    *)
(***************************************************************************)
\* parse_theme_toml: the tokens the source's text parses to.  A built-in
\* source parses to the catalog's tokens; the text of another source is the
\* theme already held in tokens.
ParseThemeToml ==
    /\ pc = "parse_theme_toml"
    /\ IF source.kind = "BuiltIn" /\ ~builtin[source.name].valid
       THEN /\ result' = ThemeInvalid
            /\ pc' = "failed"
            /\ UNCHANGED tokens
       ELSE /\ tokens' = IF source.kind = "BuiltIn"
                         THEN builtin[source.name].tokens ELSE tokens
            /\ pc' = "resolve_inheritance"
            /\ UNCHANGED result
    /\ UNCHANGED <<source, builtin, chain, seen_names, warnings, pass>>
    /\ UNCHANGED emitVars
    /\ UNCHANGED renderVars

UnknownLanguage(lang) == [kind |-> "UnknownLanguage", name |-> lang]

KNOWN_LANGUAGES ==
    {<<"b", "a", "s", "h">>, <<"c">>, <<"c", "l", "o", "j", "u", "r", "e">>, <<"c", "p", "p">>, <<"c", "+", "+">>, <<"c", "s", "h", "a", "r", "p">>, <<"c", "#">>, <<"c", "s">>, <<"c", "s", "s">>,
     <<"d", "a", "r", "t">>, <<"d", "i", "f", "f">>, <<"d", "o", "c", "k", "e", "r", "f", "i", "l", "e">>, <<"e", "l", "i", "x", "i", "r">>, <<"e", "l", "m">>, <<"e", "r", "l", "a", "n", "g">>, <<"g", "o">>,
     <<"g", "r", "a", "p", "h", "q", "l">>, <<"h", "a", "s", "k", "e", "l", "l">>, <<"h", "t", "m", "l">>, <<"j", "a", "v", "a">>, <<"j", "a", "v", "a", "s", "c", "r", "i", "p", "t">>, <<"j", "s">>, <<"j", "s", "o", "n">>,
     <<"j", "s", "o", "n", "c">>, <<"j", "s", "x">>, <<"j", "u", "l", "i", "a">>, <<"k", "o", "t", "l", "i", "n">>, <<"l", "a", "t", "e", "x">>, <<"t", "e", "x">>, <<"l", "u", "a">>,
     <<"m", "a", "k", "e", "f", "i", "l", "e">>, <<"m", "a", "r", "k", "d", "o", "w", "n">>, <<"m", "d">>, <<"n", "i", "x">>, <<"o", "b", "j", "c">>, <<"o", "b", "j", "e", "c", "t", "i", "v", "e", "-", "c">>,
     <<"o", "c", "a", "m", "l">>, <<"p", "e", "r", "l">>, <<"p", "h", "p">>, <<"p", "l", "a", "i", "n">>, <<"t", "e", "x", "t">>, <<"t", "x", "t">>, <<"p", "o", "w", "e", "r", "s", "h", "e", "l", "l">>,
     <<"p", "y", "t", "h", "o", "n">>, <<"p", "y">>, <<"r">>, <<"r", "u", "b", "y">>, <<"r", "b">>, <<"r", "u", "s", "t">>, <<"r", "s">>, <<"s", "c", "a", "l", "a">>, <<"s", "c", "s", "s">>,
     <<"s", "h">>, <<"s", "h", "e", "l", "l">>, <<"s", "q", "l">>, <<"s", "w", "i", "f", "t">>, <<"t", "o", "m", "l">>, <<"t", "s">>, <<"t", "s", "x">>, <<"t", "y", "p", "e", "s", "c", "r", "i", "p", "t">>,
     <<"t", "y", "p", "s", "t">>, <<"v", "i", "m">>, <<"x", "m", "l">>, <<"y", "a", "m", "l">>, <<"y", "m", "l">>, <<"z", "i", "g">>, <<"z", "s", "h">>, <<"m", "e", "r", "m", "a", "i", "d">>}

\* info.split([' ', ',', '\t']).next()
RECURSIVE first_field(_)
first_field(info) ==
    IF info = <<>> \/ Head(info) \in {" ", ",", "\t"} THEN <<>>
    ELSE <<Head(info)>> \o first_field(Tail(info))

check_code_block_language(info, collector) ==
    LET lang == first_field(info) IN
    IF lang = <<>> \/ to_lowercase(lang) \in KNOWN_LANGUAGES THEN collector
    ELSE Append(collector, UnknownLanguage(lang))

\* check_content: the code blocks of the tree in document order.  (The
\* trees of the model hold no Image node.)
RECURSIVE CheckNodes(_, _, _)
CheckNodes(nodes, i, collector) ==
    IF i > Len(nodes) THEN collector
    ELSE CheckNodes(nodes, i + 1,
                    IF nodes[i].kind = "CodeBlock"
                    THEN check_code_block_language(nodes[i].info, collector)
                    ELSE collector)

check_content(root_node, collector) == CheckNodes(descendants(root_node), 1, collector)

\* render_to_typst_source up to emit_typst.
CheckContent ==
    /\ pc = "loaded"
    /\ warnings' = check_content(root, warnings)
    /\ pc' = "emit_typst"
    /\ UNCHANGED themeVars
    /\ UNCHANGED emitVars
    /\ UNCHANGED renderVars

\* Ok((typst_source, warnings.into_warnings()))
ReturnWarnings ==
    /\ pc = "emitted"
    /\ returned' = Some(warnings)
    /\ pc' = "returned"
    /\ UNCHANGED <<options, front_matter, warnings>>
    /\ UNCHANGED themeVars
    /\ UNCHANGED emitVars

\* The caller renders the same input with the same options once more:
\* the locals of the call are new, the caller still holds the list the
\* call before returned.
RenderToTypstAgain ==
    /\ pc = "returned"
    /\ pc' = "warn_unknown_fields"
    /\ warnings' = <<>>
    /\ tokens' = DefaultTokens
    /\ chain' = <<>>
    /\ seen_names' = {}
    /\ source' = NoSource
    /\ result' = Pending
    /\ pass' = 0
    /\ footnotes' = <<>>
    /\ out' = <<>>
    /\ mermaid_sources' = <<>>
    /\ UNCHANGED <<builtin, root>>
    /\ UNCHANGED renderVars

NextRenderToTypst ==
    \/ WarnUnknownFields \/ ResolveEffectiveTheme
    \/ LoadTomlSource \/ ParseThemeToml
    \/ ResolveStart \/ ChainStep \/ Fold
    \/ ResolveAllColors \/ ApplySyntaxFallback \/ RunContrastChecks
    \/ ReturnResolvedTheme
    \/ CheckContent \/ CollectFootnotes \/ EmitRoot
    \/ ReturnWarnings \/ RenderToTypstAgain

\* -- inputs: a catalog of three themes, documents with a content warning
\* and an emission warning --
Dawn == <<"s", "i", "l", "k", "c", "i", "r", "c", "u", "i", "t", "-", "d", "a", "w", "n">>
Nord == <<"n", "o", "r", "d">>
Dusk == <<"d", "u", "s", "k">>

WarningCatalog ==
    (Dawn :> [valid |-> TRUE, tokens |-> [PlainTheme EXCEPT !.meta.name = Dawn]])
    @@ (Nord :> [valid |-> TRUE,
                 tokens |-> [PlainTheme EXCEPT !.meta.name = Nord,
                                               !.text.color = Grey9]])
    @@ (Dusk :> [valid |-> TRUE,
                 tokens |-> [DefaultTokens EXCEPT !.meta.name = Dusk,
                                                  !.meta.extends = Nord,
                                                  !.links.color = Grey9]])

WarningDocs ==
    {Document(<<CodeBlock(<<"z", "z">>, <<"a">>), ReferenceParagraph(<<"1">>)>>),
     Document(<<Paragraph(<<Text(<<"a">>)>>)>>)}

InitRenderToTypst ==
    /\ pc = "warn_unknown_fields"
    /\ options \in {DefaultRenderOptions, RenderOptions(BuiltIn(Nord), TRUE)}
    /\ front_matter \in
          {NoFrontMatter}
             \cup {FrontMatter(t, e) :
                      t \in {NoneString, Some(Dusk), Some(<<"d", "a", "s", "k">>)},
                      e \in {x \in SUBSET ExtraFields : Cardinality(x) <= MaxExtras}}
    /\ returned = NoneString
    /\ root \in WarningDocs
    /\ footnotes = <<>>
    /\ out = <<>>
    /\ mermaid_sources = <<>>
    /\ warnings = <<>>
    /\ builtin = WarningCatalog
    /\ tokens = DefaultTokens
    /\ chain = <<>>
    /\ seen_names = {}
    /\ source = NoSource
    /\ result = Pending
    /\ pass = 0

SpecRenderToTypst == InitRenderToTypst /\ [][NextRenderToTypst]_vars

(***************************************************************************)
(* C26  The order of the returned warnings.                                 *)
(***************************************************************************)
WarningStage(w) ==
    CASE w.kind = "UnrecognizedFrontMatter" -> 1
      [] w.kind = "ContrastRatio" -> 2
      [] w.kind \in {"UnknownLanguage", "RemoteImageSkipped"} -> 3
      [] OTHER -> 4

\* C26: the list a render returns has the front matter warnings first,
\* then the contrast warnings, then the content warnings, then the emission
\* warnings; and a render of the same input with the same options returns
\* the list the render before returned, in the same order, also when the
\* front matter has two or more unrecognized fields.
C26_SameWarningsSameOrder ==
    /\ [](returned.some =>
            \A i, j \in DOMAIN returned.v :
                i < j => WarningStage(returned.v[i]) <= WarningStage(returned.v[j]))
    /\ [][(pc = "emitted" /\ returned.some) => returned' = returned]_vars

\* A render that returned warnings of all four stages, two of them for
\* unrecognized front matter fields.
C26_Witness ==
    /\ pc = "returned"
    /\ Cardinality(front_matter.extras) = 2
    /\ Len(returned.v) >= 5
    /\ {WarningStage(returned.v[i]) : i \in DOMAIN returned.v} = {1, 2, 3, 4}
(***************************************************************************)
(* C27  emit_children handles every child once, in sibling order.          *)
(***************************************************************************)
\* The digits mark the children of the marked runs: every text-bearing
\* child holds one digit and no markup the emitter writes holds any.
IsMarker(c) == c \in {"1", "2", "3", "4", "5", "6", "7", "8", "9"}

Markers(s) == SelectSeq(s, IsMarker)

\* The text below a node, in document order.
TextBelow(node) ==
    LET d == descendants(node) IN
    Concat([i \in 1..Len(d) |-> d[i].literal])

IsRunDoc(doc) ==
    /\ doc \in InlineDocs
    /\ doc.children[1].kind \in {"Paragraph", "Heading"}

\* C27: in the text emitted for a run of inline siblings the marks of the
\* children appear once each and in sibling order, whether the child went
\* into a raw-markup fragment or to emit_node, and also for the sibling that
\* ended a fragment.
C27_EveryChildOnce ==
    (pc = "emitted" /\ IsRunDoc(root)) => Markers(out) = Markers(TextBelow(root))

\* <q>1 _2_ 3</q>4: the Emph child ends the fragment and is emitted itself.
C27_Witness ==
    /\ pc = "emitted"
    /\ root = Document(<<Paragraph(
                  <<HtmlInline(TagOpen(<<"q">>)), Text(<<"1">>), Emph(<<Text(<<"2">>)>>),
                    Text(<<"3">>), HtmlInline(TagEnd(<<"q">>)), Text(<<"4">>)>>)>>)
    /\ Markers(out) = <<"1", "2", "3", "4">>
    /\ out = <<"\n", "1", "_", "2", "_", "3", "4", "\n">>
(***************************************************************************)
(* C28  A list leaves in_tight_list and indent as it found them.           *)
(***************************************************************************)
\* The List nodes of a document, nested ones included.
ListsOf(doc) == {n \in Range(descendants(doc)) : n.kind = "List"}

\* The context a list is entered with: the flag and the indent of whatever
\* encloses it.
EnteredWith(tight, depth) ==
    [EmitContext(footnotes, <<>>) EXCEPT !.in_tight_list = tight, !.indent = depth]

\* C28: emit_node on a List node, tight or loose, with tight or loose lists
\* nested in its items, returns a context whose in_tight_list and indent are
\* those it was entered with; so in the emitted text the paragraph that
\* follows a nested loose list inside an item of a tight list stands
\* unwrapped.
C28_ListRestoresContext ==
    (pc = "emitted" /\ root \in ListDocs) =>
        /\ \A list \in ListsOf(root), tight \in BOOLEAN, depth \in 0..MaxItems :
              LET after == emit_node(list, EnteredWith(tight, depth)) IN
              /\ after.in_tight_list = tight
              /\ after.indent = depth
        /\ (root.children[1].tight /\ NestedItem(FALSE) \in Range(root.children[1].children))
              => contains(out, <<"q", "\n", "\n", "r", "\n">>)

\* An ordered tight list whose first item holds a loose list, a second
\* item and a paragraph after the list.
C28_Witness ==
    /\ pc = "emitted"
    /\ root = Document(<<List(TRUE, TRUE, 1, <<NestedItem(FALSE), SimpleItem(<<"a">>)>>),
                         Paragraph(<<Text(<<"e">>)>>)>>)
    /\ out = <<"\n", "+", " ", "p", "\n", " ", " ", "-", " ", "\n", "q", "\n", "\n", "r", "\n", "+", " ", "a", "\n", "\n", "e", "\n">>
(***************************************************************************)
(* C29  A header row with content is kept.                                  *)
(***************************************************************************)
\* The header row holds inline content: text that is not blank, or inline
\* code.
HeaderHasContent(table) ==
    \E cell \in Range(table.children[1].children) :
        \E n \in Range(descendants(cell)) :
            \/ n.kind = "Text" /\ trim(n.literal) # <<>>
            \/ n.kind = "Code"

\* C29: when a cell of the header row holds inline content, text or inline
\* code, has_empty_header is false and the table is emitted with its header
\* row, as #table(...) and not as the block that leaves the first row out.
C29_HeaderKept ==
    (pc = "emitted" /\ root \in TableDocs /\ HeaderHasContent(root.children[1])) =>
        /\ ~has_empty_header(root.children[1])
        /\ SubSeq(out, 1, 8) = <<"\n", "#", "t", "a", "b", "l", "e", "(">>

\* A header of an inline code cell and a text cell is kept.
C29_Witness ==
    /\ pc = "emitted"
    /\ root \in TableDocs
    /\ root.children[1].children[1].children =
          <<TableCell(<<Code(<<"c">>, 1)>>), TableCell(<<Text(<<"h">>)>>)>>
    /\ ~has_empty_header(root.children[1])
    /\ SubSeq(out, 1, 8) = <<"\n", "#", "t", "a", "b", "l", "e", "(">>
(***************************************************************************)
(* C30  Text inside a bracketed wrapper.                                    *)
(***************************************************************************)
\* The character at i is escaped: an odd number of backslashes precedes it.
EscapedAt(s, i) ==
    LET run == CHOOSE n \in 0..(i - 1) :
                  /\ \A j \in (i - n)..(i - 1) : s[j] = "\\"
                  /\ (n = i - 1 \/ s[i - n - 1] # "\\")
    IN run % 2 = 1

Unescaped(s, c, k) == Cardinality({i \in 1..k : s[i] = c /\ ~EscapedAt(s, i)})

\* The unescaped square brackets of s are balanced.
Balanced(s) ==
    /\ \A k \in 1..Len(s) : Unescaped(s, "[", k) >= Unescaped(s, "]", k)
    /\ Unescaped(s, "[", Len(s)) = Unescaped(s, "]", Len(s))

\* C30: whatever text the inline children of a paragraph, heading or quote
\* hold, inside #strike[...] as elsewhere, the emitted markup has no
\* unescaped square bracket that comes from the text: its brackets are
\* balanced.
C30_BracketsBalanced ==
    (pc = "emitted" /\ IsRunDoc(root)) => Balanced(out)

\* Text inside #strike[...] whose brackets are the wrapper's own.
C30_Witness ==
    /\ pc = "emitted"
    /\ IsRunDoc(root)
    /\ contains(out, <<"#", "s", "t", "r", "i", "k", "e", "[", "s", "]">>)
    /\ Balanced(out)
====
